---- MODULE Spec2Model ----
(***************************************************************************)
(* SentinelAuth: token issuance, refresh rotation and revocation over a    *)
(* relational store (users, refresh_tokens, sessions, audit_events,        *)
(* login_attempts) and a Redis cache of refresh ids.                       *)
(*                                                                         *)
(* Every HTTP request runs in its own worker with its own database         *)
(* session.  The database is READ COMMITTED: a session reads committed     *)
(* rows and its flushed rows stay private until it commits, so a flush is  *)
(* local to the request (a lock wait only delays it).  A worker therefore  *)
(* takes one step per interaction that other requests can observe or       *)
(* influence: a database read, a commit, a cache read, write or delete.    *)
(* The calls a step makes to the stores may each fail (the value of the    *)
(* step's db/redis outcome inputs); what follows a call up to the next     *)
(* shared interaction belongs to the same step.  Time is counted in days   *)
(* and advances by one refresh lifetime per Tick, between requests.        *)
(***************************************************************************)
EXTENDS Integers, FiniteSets, Sequences, TLC

\* ------------------------------------------------------------------ bounds
MaxJti == 3
MaxTicks == 1
MaxAudit == 4
MaxIssueAudit == 3
MaxWall == 2
MaxLimCalls == 7

\* ------------------------------------------------------------ program data
REFRESH_TOKEN_TTL_DAYS == 7
ACCESS_TOKEN_TTL_DAYS == 0
ACCESS_TOKEN_TTL_MIN == 15
FALLBACK_ACCESS_TTL_MINUTES == 5
None == 0 - 1

FALLBACK_REFRESH_WARNING == "DEV relaxed: refresh store unavailable, rotation skipped"

Procs == {1, 2}
\* The accounts.  The specifications of one account draw their requests from
\* Registrants; bob signs up where two accounts meet.
Emails == {"alice", "bob"}
Registrants == {"alice"}
JtiIds == 1 .. MaxJti

EventTypes == {"user.register", "user.login", "user.refresh", "user.logout", "user.update",
               "user.role.update", "session.revoke"}
AuditKinds == [event_type : EventTypes, fallback : BOOLEAN]

VARIABLES
    settings,        \* [refresh_persistence, dev_relaxed_mode, access_token_ttl_min]
    faulty,          \* the stores of this deployment can fail to answer a call
    now,             \* the clock, in days
    users,           \* committed table users, by email
    roles,           \* committed table roles: the names
    refresh_tokens,  \* committed table refresh_tokens, by jti
    sessions,        \* committed table sessions, by id
    audit_events,    \* committed table audit_events: rows per kind
    login_attempts,  \* committed table login_attempts: rows per (email, success)
    cache,           \* Redis keys refresh:{jti} -> expiry of the key, or None
    nextId,          \* next fresh uuid / row id
    procs,           \* the workers: position, locals, open transaction
    last,            \* the HTTP response the latest step sent, if it sent one
    clientAccess,    \* unexpired access tokens delivered in a response
    rotatedOut,      \* <<old, new>>: a refresh presenting old was answered 200 with new
    loggedOut,       \* jtis whose logout was answered 200
    wall,            \* time.time(), in ticks of TICK_SECONDS
    bucket,          \* Redis hashes of the login limiter: tokens, timestamp
    callers,         \* login requests on their way through the limiter
    lhist,           \* what the limiter has done so far, and its latest answer
    alert_channels,  \* settings.alert_channels
    profile,         \* committed users row: last_login_ip, last_login_ua
    flagged,         \* committed audit_events rows per metadata severity
    issuing,         \* the issuance on its way to its commit
    alerts,          \* the tasks created by record_event, in order
    areply,          \* the answer the latest issuance step sent, if any
    minted           \* the claims of the latest access token of each kind

authVars == << settings, faulty, now, users, roles, refresh_tokens, sessions,
               audit_events, login_attempts, cache, nextId, procs, last,
               clientAccess, rotatedOut, loggedOut >>

limiterVars == << wall, bucket, callers, lhist >>

alertVars == << alert_channels, profile, flagged, issuing, alerts, areply >>

lifetimeVars == << minted >>

vars == << authVars, limiterVars, alertVars, lifetimeVars >>

\* ---------------------------------------------------------------- records
NoUser == [exists |-> FALSE, is_active |-> FALSE, roles |-> {}]
NoRecord == [exists |-> FALSE, user_id |-> "", expires_at |-> None, revoked_at |-> None]
NoSession == [exists |-> FALSE, user_id |-> "", active |-> FALSE]
NoToken == [kind |-> "none", jti |-> 0, sub |-> "", exp |-> None, roles |-> {}]

\* The open transaction of a database session: rows flushed and not committed.
EmptyTx == [ revoke    |-> 0,      \* jti whose revoked_at is being stamped
             revokedAt |-> None,
             new       |-> FALSE,  \* the new refresh_tokens row and sessions row
             sessOff   |-> 0,      \* sessions row being deactivated
             event     |-> "",     \* inserted audit_events row
             fallback  |-> FALSE,
             attempt   |-> "",     \* inserted login_attempts row: "", "ok", "failed"
             addUser   |-> "",     \* inserted users row, with its user_roles row
             addRole   |-> "" ]    \* inserted roles row

IdleProc == [ pc           |-> "idle",
              op           |-> "none",
              token        |-> NoToken,   \* the presented refresh token (users, sessions
                                          \* and /me requests: the bearer credential)
              submitted    |-> "",        \* register: the email as it was sent
              bearer       |-> "none",    \* type claim of the bearer credential
              email        |-> "",        \* the user the request acts for
              override     |-> FALSE,     \* AuthService._redis_override is not None
              redis        |-> FALSE,     \* refresh/logout: redis_client is not None
              did_fallback |-> FALSE,
              cache_hit    |-> FALSE,
              cached       |-> FALSE,     \* cache_refresh_jti wrote the new id
              new          |-> NoToken,   \* the generated refresh token
              tx           |-> EmptyTx,
              lateRot      |-> FALSE,     \* the presented token was rotated before the request
              lateOut      |-> FALSE,     \* the presented token was logged out before the request
              prev         |-> "",        \* the request repeats the one just refused: where it was
              status       |-> 0,
              detail       |-> "",
              out          |-> NoToken,   \* refresh token of the response
              warning      |-> "",
              body         |-> "none" ]   \* "pair", "access_only", "logged out"

NoResponse == [op |-> "none", token |-> NoToken, bearer |-> "none",
               submitted |-> "",
               email |-> "", lateRot |-> FALSE,
               lateOut |-> FALSE, prev |-> "", cache_hit |-> FALSE, cached |-> FALSE,
               at |-> "", status |-> 0, detail |-> "",
               out |-> NoToken, warning |-> "", body |-> "none"]

\* The limiter of POST /auth/login: the dependency's bucket per address and
\* the handler's bucket per email and address.  Time is counted in ticks of
\* TICK_SECONDS and tokens in LimUnit-ths, so that every refill is a whole
\* number: 1/2 token a tick for "ip", 1/10 token a tick for "email".
TICK_SECONDS == 6
LimUnit == 10
Callers == {1, 2}
LimKeys == {"ip", "email"}
\* Defect seed: the login buckets hold six tokens.
RATE_LIMITS_six == [ip    |-> [capacity |-> 6, period_seconds |-> 60],
                    email |-> [capacity |-> 6, period_seconds |-> 300]]

\* rate_limit_dependency("login", 5, 60) of the login route and the handler's
\* rate_limit_or_raise(..., capacity=5, period_seconds=300).
RATE_LIMITS == [ip    |-> [capacity |-> 5, period_seconds |-> 60],
                email |-> [capacity |-> 5, period_seconds |-> 300]]

NoBucket == [exists |-> FALSE, tokens |-> 0, timestamp |-> 0]

IdleCaller == [ pc          |-> "idle",   \* "ip", "email": consume_token is awaited
                redis       |-> FALSE,    \* the route's redis is not None
                now         |-> 0,        \* time.time() of consume_token
                password_ok |-> FALSE,
                fails       |-> {},       \* limiter calls that found no store
                status      |-> 0,
                detail      |-> "",
                by          |-> "" ]      \* the bucket that refused

NoKeyHistory == [ full_at   |-> None,  \* now of the call that found the bucket full
                  calls     |-> 0,     \* calls and admissions since then
                  admitted  |-> 0,
                  rejected  |-> None,  \* now of the latest call, if it was refused
                  skew      |-> FALSE, \* a call carried a now before the stored one
                  gWall     |-> None,  \* the calls made since time last moved:
                  gStart    |-> 0,     \*   tokens (refilled) before the first one
                  gAdmitted |-> 0,
                  gSkew     |-> FALSE,
                  gRaced    |-> FALSE ]  \* two of them were awaited together

NoHistory == [ started |-> 0,
               checked |-> 0,           \* requests that reached the credential check
               keys    |-> [k \in LimKeys |-> NoKeyHistory],
               status  |-> 0,           \* the answer the latest step sent, if any
               detail  |-> "",
               by      |-> "",
               fails   |-> {} ]

\* Anomaly tracking and alerts.  An Optional[str] that is None is NoStr.
NoStr == "<None>"
IPs == {"", "10.0.0.1", "10.0.0.2"}   \* client_ip(request)
UAs == {"", "curl", "firefox"}       \* user_agent(request)
Channels == {"slack", "email"}
Severities == {"low", "medium", "high"}
MaxIssues == 3
MaxAlerts == 2

NoProfile == [exists |-> FALSE, last_login_ip |-> NoStr, last_login_ua |-> NoStr]

IdleIssue == [ pc       |-> "idle",   \* "commit": the caller's db.commit() is next
               n        |-> 0,        \* issuances started so far
               op       |-> "none",
               ip       |-> NoStr,
               ua       |-> NoStr,
               prev_ip  |-> NoStr,
               prev_ua  |-> NoStr,
               severity |-> "none",
               fallback |-> FALSE,
               task     |-> 0 ]       \* the task record_event created, 0 for none

NoReply == [op |-> "none", status |-> 0, ip |-> NoStr, ua |-> NoStr,
            prev_ip |-> NoStr, prev_ua |-> NoStr, severity |-> "none",
            fallback |-> FALSE, task |-> 0,
            settled |-> FALSE]   \* the task had ended when the answer was sent

\* Access-token lifetimes.  The claims iat and exp of a token, in ticks of
\* TICK_SECONDS; ACCESS_TOKEN_TTL_MIN is an int that nothing validates.
TtlChoices == {0, 1, 5, 6, 15}
NoClaims == [iat |-> None, exp |-> None]
NoMinted == [normal |-> NoClaims, fallback |-> NoClaims]

\* The task of alert_service.notify: created, gathering its channels, done.
\* A channel is "none" (not configured), "pending", "sent" or "failed".
NewTask(severity) ==
    [severity |-> severity, state |-> "created", slack |-> "none", email |-> "none"]

redis_required == settings.refresh_persistence = "redis"
dev_relaxed_mode == settings.dev_relaxed_mode

InFlight(p) == procs[p].pc # "idle"

\* The stores and the workers of a fresh deployment whose ACCESS_TOKEN_TTL_MIN
\* is one of ttls.
InitWith(ttls) ==
    /\ settings \in [refresh_persistence : {"db", "redis"}, dev_relaxed_mode : BOOLEAN,
                     access_token_ttl_min : ttls]
    /\ faulty \in BOOLEAN
    /\ now = 0
    /\ users = [e \in Emails |-> NoUser]
    /\ roles = {}
    /\ refresh_tokens = [j \in JtiIds |-> NoRecord]
    /\ sessions = [j \in JtiIds |-> NoSession]
    /\ audit_events = [k \in AuditKinds |-> 0]
    /\ login_attempts = [k \in Emails \X BOOLEAN |-> 0]
    /\ cache = [j \in JtiIds |-> None]
    /\ nextId = 1
    /\ procs = [p \in Procs |-> IdleProc]
    /\ last = NoResponse
    /\ clientAccess = {}
    /\ rotatedOut = {}
    /\ loggedOut = {}
    /\ wall = 0
    /\ bucket = [k \in LimKeys |-> NoBucket]
    /\ callers = [c \in Callers |-> IdleCaller]
    /\ lhist = NoHistory
    /\ profile = NoProfile
    /\ flagged = [v \in Severities |-> 0]
    /\ issuing = IdleIssue
    /\ alerts = << >>
    /\ areply = NoReply
    /\ minted = NoMinted

\* The deployment with the default access-token lifetime.
InitStores == InitWith({ACCESS_TOKEN_TTL_MIN})

\* Settings.alert_channels defaults to the empty list.
Init == InitStores /\ alert_channels = {}

\* ------------------------------------------------------- token codec (jose)
\* jwt.decode: the signature verifies and exp has not passed (exp < now fails).
decode_token(t) == t.kind \in {"refresh", "access"} /\ ~(t.exp < now)

\* Defect seed: the type claim is not looked at.
ensure_token_type_any(t, expected) == t.kind \in {"refresh", "access"}

ensure_token_type(t, expected) == t.kind = expected

\* The claims of a token.  The roles claim is the membership at the time of
\* issue; nothing reads the one of a refresh token, which is left empty.
RefreshTokenOf(j, u, e) ==
    [kind |-> "refresh", jti |-> j, sub |-> u, exp |-> e, roles |-> {}]
AccessTokenOf(u, e, r) ==
    [kind |-> "access", jti |-> 0, sub |-> u, exp |-> e, roles |-> r]
Garbage == [kind |-> "garbage", jti |-> 0, sub |-> "", exp |-> None, roles |-> {}]

\* The refresh tokens clients hold: a pair is delivered by the step that commits
\* its record, with the record's owner and expiry as claims.
ClientRefresh ==
    {RefreshTokenOf(j, refresh_tokens[j].user_id, refresh_tokens[j].expires_at) :
        j \in {i \in JtiIds : refresh_tokens[i].exists}}

\* A refresh token signed with the service's key whose record the table does
\* not hold (the row was never committed here, or was lost with a restore).
Orphan ==
    RefreshTokenOf(MaxJti + 1, CHOOSE e \in Registrants : TRUE,
                   (MaxTicks + 1) * REFRESH_TOKEN_TTL_DAYS)

\* SELECT ... WHERE jti = j in the table rt: the row, or none.
RecordIn(rt, j) == IF j \in JtiIds THEN rt[j] ELSE NoRecord

RecordOf(j) == RecordIn(refresh_tokens, j)

\* The value of the key refresh:{j} in the cache c, None when it is absent.
KeyIn(c, j) == IF j \in JtiIds THEN c[j] ELSE None

\* What a client can put in a request: a token it was given, or junk.
Presentable == ClientRefresh \cup clientAccess \cup {Garbage}

\* ------------------------------------------------------------ environment
\* Redis expires a key when its TTL has elapsed (SETEX in cache_refresh_jti).
ExpireKeys(c, t) == [j \in JtiIds |-> IF c[j] # None /\ c[j] <= t THEN None ELSE c[j]]

\* A request is short against a day: the clock moves between requests.
Tick ==
    /\ now < MaxTicks * REFRESH_TOKEN_TTL_DAYS
    /\ \A p \in Procs : ~InFlight(p)
    /\ now' = now + REFRESH_TOKEN_TTL_DAYS
    /\ cache' = ExpireKeys(cache, now')
    /\ clientAccess' = {a \in clientAccess : ~(a.exp < now')}
    /\ last' = NoResponse
    /\ UNCHANGED << limiterVars, alertVars, lifetimeVars >>
    /\ UNCHANGED << settings, faulty, users, roles, refresh_tokens, sessions, audit_events,
                    login_attempts, nextId, procs, rotatedOut, loggedOut >>

\* FLUSHALL, or a restart of a Redis that does not persist its keys.
RedisFlush ==
    /\ \E j \in JtiIds : cache[j] # None
    /\ cache' = [j \in JtiIds |-> None]
    /\ last' = NoResponse
    /\ UNCHANGED << limiterVars, alertVars, lifetimeVars >>
    /\ UNCHANGED << settings, faulty, now, users, roles, refresh_tokens, sessions, audit_events,
                    login_attempts, nextId, procs, clientAccess,
                    rotatedOut, loggedOut >>

\* ------------------------------------------------------------- responses
Respond(pr, status, detail) ==
    [IdleProc EXCEPT !.pc = "done", !.op = pr.op, !.token = pr.token,
                     !.bearer = pr.bearer, !.submitted = pr.submitted,
                     !.email = pr.email, !.lateRot = pr.lateRot, !.lateOut = pr.lateOut,
                     !.prev = pr.prev, !.cache_hit = pr.cache_hit, !.cached = pr.cached,
                     !.status = status, !.detail = detail]

RespondPair(pr, warning) ==
    [Respond(pr, 200, "") EXCEPT !.body = "pair", !.out = pr.new, !.warning = warning]

RespondAccessOnly(pr) ==
    [Respond(pr, 200, "") EXCEPT !.body = "access_only", !.out = pr.token,
                                 !.warning = FALLBACK_REFRESH_WARNING]

\* The response, with the step of the request that sent it.
ResponseOf(o, at) ==
    [op |-> o.op, token |-> o.token, bearer |-> o.bearer,
     submitted |-> o.submitted,
     email |-> o.email, lateRot |-> o.lateRot,
     lateOut |-> o.lateOut, prev |-> o.prev, cache_hit |-> o.cache_hit,
     cached |-> o.cached, at |-> at, status |-> o.status,
     detail |-> o.detail, out |-> o.out, warning |-> o.warning, body |-> o.body]

\* The worker goes on with its request, or answers and is free again.
Move(p, o) ==
    IF o.pc = "done"
    THEN /\ procs' = [procs EXCEPT ![p] = IdleProc]
         /\ last' = ResponseOf(o, IF procs[p].pc = "idle" THEN "start" ELSE procs[p].pc)
    ELSE /\ procs' = [procs EXCEPT ![p] = o]
         /\ last' = NoResponse

AuditCount(event_type) ==
    audit_events[[event_type |-> event_type, fallback |-> FALSE]]
    + audit_events[[event_type |-> event_type, fallback |-> TRUE]]

AuditTotal ==
    AuditCount("user.register") + AuditCount("user.login")
    + AuditCount("user.refresh") + AuditCount("user.logout")
    + AuditCount("user.update")
    + AuditCount("user.role.update") + AuditCount("session.revoke")

Issuing(q) == InFlight(q) /\ procs[q].op \in {"register", "login", "refresh"}
                          /\ procs[q].new.jti = 0

\* A worker is free; requests are handed to the lowest free worker.
CanStart(p) ==
    /\ ~InFlight(p)
    /\ \A q \in Procs : q < p => InFlight(q)
    /\ AuditTotal + Cardinality({q \in Procs : InFlight(q)}) < MaxAudit

\* A register, login or refresh is handed to a worker among the first
\* MaxIssueAudit audited events, so that logouts can follow them.
CanStartIssuance(p) ==
    /\ CanStart(p)
    /\ AuditTotal + Cardinality({q \in Procs : InFlight(q)}) < MaxIssueAudit

CanIssue == nextId + Cardinality({q \in Procs : Issuing(q)}) <= MaxJti

\* ------------------------------------------------------------ the database
\* Defect seed: the rollback is forgotten.
NoRollback(pr) == pr

\* Session.rollback(): the flushed rows are dropped.
Rollback(pr) == [pr EXCEPT !.tx = EmptyTx, !.new = NoToken]

\* Another session holds an uncommitted INSERT of this email (unique index).
EmailLocked(p, e) == \E q \in Procs \ {p} : procs[q].tx.addUser = e

CommitRefreshTokens(pr) ==
    [j \in JtiIds |->
        IF pr.tx.new /\ j = pr.new.jti
        THEN [exists |-> TRUE, user_id |-> pr.new.sub,
              expires_at |-> pr.new.exp, revoked_at |-> None]
        ELSE IF j = pr.tx.revoke /\ refresh_tokens[j].exists
        THEN [refresh_tokens[j] EXCEPT !.revoked_at = pr.tx.revokedAt]
        ELSE refresh_tokens[j]]

\* Defect seed: the sessions row is left out of the commit.
CommitSessionsSkipped(pr) == sessions

CommitSessions(pr) ==
    [j \in JtiIds |->
        IF pr.tx.new /\ j = pr.new.jti
        THEN [exists |-> TRUE, user_id |-> pr.new.sub, active |-> TRUE]
        ELSE IF j = pr.tx.sessOff /\ sessions[j].exists
        THEN [sessions[j] EXCEPT !.active = FALSE]
        ELSE sessions[j]]

\* Defect seed: the audit row is left out of the commit.
CommitAuditSkipped(pr) == audit_events

\* The audit row of record_event, visible with the commit.
CommitAudit(pr) ==
    IF pr.tx.event = "" THEN audit_events
    ELSE LET k == [event_type |-> pr.tx.event, fallback |-> pr.tx.fallback]
         IN [audit_events EXCEPT ![k] = @ + 1]

CommitAttempts(pr) ==
    IF pr.tx.attempt = "" THEN login_attempts
    ELSE [login_attempts EXCEPT ![<<pr.email, pr.tx.attempt = "ok">>] = @ + 1]

CommitUsers(pr) ==
    IF pr.tx.addUser = "" THEN users
    ELSE [users EXCEPT ![pr.tx.addUser] =
                           [exists |-> TRUE, is_active |-> TRUE, roles |-> {"user"}]]

CommitRoles(pr) == IF pr.tx.addRole = "" THEN roles ELSE roles \cup {pr.tx.addRole}

\* Session.commit(): the flushed rows become visible to every session.
Commit(pr) ==
    /\ refresh_tokens' = CommitRefreshTokens(pr)
    /\ sessions' = CommitSessions(pr)
    /\ audit_events' = CommitAudit(pr)
    /\ login_attempts' = CommitAttempts(pr)
    /\ users' = CommitUsers(pr)
    /\ roles' = CommitRoles(pr)

NoCommit == UNCHANGED << users, roles, refresh_tokens, sessions, audit_events, login_attempts >>

\* ------------------------------------------------- composing the calls
\* A call returns the set of ways it can end: it fails when its store is
\* unreachable, and succeeds otherwise.  Then(S, F) goes on with F from every
\* outcome of S that has not answered the request.
Then(S, F(_)) == UNION {IF o.pc = "done" THEN {o} ELSE F(o) : o \in S}

\* The results of a call to a store: TRUE when it answered.
Call == IF faulty THEN BOOLEAN ELSE {TRUE}

\* The outcomes S of a failed call to a store.
Failing(S) == IF faulty THEN S ELSE {}

\* AuthService._get_redis_client: the injected client, or a fresh ping.
get_redis_client(pr) == IF pr.override THEN {TRUE} ELSE Call

\* FastAPI dependency get_redis: a client that answered a ping, None in relaxed
\* mode, or 503.
get_redis(pr) ==
    {[pr EXCEPT !.override = TRUE]}
    \cup Failing(IF dev_relaxed_mode
                 THEN {[pr EXCEPT !.override = FALSE]}
                 ELSE {Respond(pr, 503, "Redis unavailable")})

\* rate_limit_or_raise: the bucket admits the request or not; an unreachable
\* limiter admits it in relaxed mode and answers 503 otherwise.
rate_limit_or_raise(pr, detail) ==
    {pr, Respond(pr, 429, detail)}
    \cup Failing(IF dev_relaxed_mode THEN {}
                 ELSE {Respond(pr, 503, "Redis unavailable")})

\* Defect seed: the handler of RefreshPersistenceError falls back in every mode.
OnPersistenceErrorAnyMode(pr) ==
    IF pr.op = "refresh"
    THEN [Rollback(pr) EXCEPT !.pc = "fb_commit"]
    ELSE Respond(pr, 503, "Service unavailable")

\* except RefreshPersistenceError: roll back; refresh falls back in relaxed mode.
OnPersistenceError(pr) ==
    IF pr.op = "refresh" /\ dev_relaxed_mode
    THEN [Rollback(pr) EXCEPT !.pc = "fb_commit"]
    ELSE Respond(pr, 503, "Service unavailable")

OnUnexpected(pr) == Respond(pr, 503, "Service unavailable")

EventOf(op) == "user." \o op

\* audit.record_event: add the row and flush.
record_event(pr) ==
    Failing({OnUnexpected(pr)})
    \cup { [pr EXCEPT !.tx.event = EventOf(pr.op),
                      !.pc = IF pr.op = "refresh" /\ redis_required /\ pr.redis
                             THEN "r_delete" ELSE "i_commit"] }

generate_token_pair(user_id) ==
    RefreshTokenOf(nextId, user_id, now + REFRESH_TOKEN_TTL_DAYS)

\* _issue_tokens_with_persistence up to its cache write: the new rows are
\* flushed (with the pending revocation), a cache client is looked for.
issue_tokens_with_persistence(pr) ==
    LET pr1 == [pr EXCEPT !.new = generate_token_pair(pr.email), !.tx.new = TRUE]
    IN Failing({OnPersistenceError(pr)})
       \cup (IF ~redis_required THEN record_event(pr1)
             ELSE UNION { IF c THEN {[pr1 EXCEPT !.pc = "i_cache"]}
                          ELSE IF ~dev_relaxed_mode THEN {OnPersistenceError(pr1)}
                          ELSE record_event(pr1)
                          : c \in (IF pr.redis THEN {TRUE} ELSE get_redis_client(pr)) })

cache_refresh_jti(c, t) == [c EXCEPT ![t.jti] = t.exp]
is_refresh_jti_valid(j) == KeyIn(cache, j) # None
delete_refresh_jti(c, j) == [i \in JtiIds |-> IF i = j THEN None ELSE c[i]]

\* Defect seed: a failed cache write is logged in every mode.
on_cache_failure_logged(pr) == record_event(pr)

\* cache_refresh_jti raised: fatal in strict mode, logged in relaxed mode.
on_cache_failure(pr) ==
    IF dev_relaxed_mode THEN record_event(pr) ELSE {OnPersistenceError(pr)}

\* The cache write of _issue_tokens_with_persistence, then its audit event.
issue_cache(p) ==
    /\ procs[p].pc = "i_cache"
    /\ \E ok \in Call :
         LET pr == procs[p]
             S  == IF ok THEN record_event([pr EXCEPT !.cached = TRUE])
                   ELSE on_cache_failure(pr)
         IN /\ cache' = IF ok THEN cache_refresh_jti(cache, pr.new) ELSE cache
            /\ \E o \in S : Move(p, o)
    /\ NoCommit
    /\ UNCHANGED << limiterVars, alertVars, lifetimeVars >>
    /\ UNCHANGED << settings, faulty, now, nextId, clientAccess, rotatedOut, loggedOut >>

\* models.user_role_names: the roles of the user as the session sees them (a
\* user being registered has the default role).
user_role_names(user_id) ==
    IF users[user_id].exists THEN users[user_id].roles ELSE {"user"}

\* Defect seed: the access token is expired when it is issued.
NewAccessExpired(user_id) ==
    AccessTokenOf(user_id, now - 1, user_role_names(user_id))

NewAccess(user_id) ==
    AccessTokenOf(user_id, now + ACCESS_TOKEN_TTL_DAYS, user_role_names(user_id))

\* db.commit() of register, login and refresh, and the 200 with the pair.
issue_commit(p) ==
    /\ procs[p].pc = "i_commit"
    /\ \E dbok \in Call :
         LET pr == procs[p] IN
         IF dbok
         THEN /\ Commit(pr)
              /\ Move(p, RespondPair(pr, IF pr.op = "refresh" /\ pr.did_fallback
                                         THEN FALLBACK_REFRESH_WARNING ELSE ""))
              /\ clientAccess' = clientAccess \cup {NewAccess(pr.email)}
              /\ rotatedOut' = IF pr.op = "refresh"
                               THEN rotatedOut \cup {<<pr.token.jti, pr.new.jti>>}
                               ELSE rotatedOut
         ELSE /\ NoCommit
              /\ Move(p, OnUnexpected(pr))
              /\ UNCHANGED << clientAccess, rotatedOut >>
    /\ UNCHANGED << limiterVars, alertVars, lifetimeVars >>
    /\ UNCHANGED << settings, faulty, now, cache, nextId, loggedOut >>

\* ------------------------------------------------------------- refresh
\* Defect seed: refresh does not look at the user's is_active.
refresh_begin_ignoring_active(pr) ==
    LET t == pr.token IN
    IF ~(decode_token(t) /\ ensure_token_type(t, "refresh"))
    THEN {Respond(pr, 401, "Invalid token")}
    ELSE IF t.jti = 0 \/ t.sub = ""
    THEN {Respond(pr, 401, "Refresh token invalid or revoked")}
    ELSE Failing({Respond(pr, 500, "Internal Server Error")})
         \cup (IF ~users[t.sub].exists
               THEN {Respond(pr, 401, "Refresh token invalid or revoked")}
               ELSE LET pr1 == [pr EXCEPT !.email = t.sub] IN
                    IF ~redis_required THEN {[pr1 EXCEPT !.pc = "r_select"]}
                    ELSE { IF c THEN [pr1 EXCEPT !.pc = "r_isvalid", !.redis = TRUE]
                           ELSE IF ~dev_relaxed_mode
                           THEN Respond(pr, 503, "Service unavailable")
                           ELSE [pr1 EXCEPT !.pc = "r_select"]
                           : c \in get_redis_client(pr) })

\* AuthService.refresh up to the cache lookup: decode, claims, user, client.
refresh_begin(pr) ==
    LET t == pr.token IN
    IF ~(decode_token(t) /\ ensure_token_type(t, "refresh"))
    THEN {Respond(pr, 401, "Invalid token")}
    ELSE IF t.jti = 0 \/ t.sub = ""
    THEN {Respond(pr, 401, "Refresh token invalid or revoked")}
    ELSE Failing({Respond(pr, 500, "Internal Server Error")})
         \cup (IF ~users[t.sub].exists \/ ~users[t.sub].is_active
               THEN {Respond(pr, 401, "Refresh token invalid or revoked")}
               ELSE LET pr1 == [pr EXCEPT !.email = t.sub] IN
                    IF ~redis_required THEN {[pr1 EXCEPT !.pc = "r_select"]}
                    ELSE { IF c THEN [pr1 EXCEPT !.pc = "r_isvalid", !.redis = TRUE]
                           ELSE IF ~dev_relaxed_mode
                           THEN Respond(pr, 503, "Service unavailable")
                           ELSE [pr1 EXCEPT !.pc = "r_select"]
                           : c \in get_redis_client(pr) })

\* The request will never insert a record: its token's record is revoked.
NeverRotates(t) ==
    IF t.kind = "refresh"
    THEN ~RecordOf(t.jti).exists \/ RecordOf(t.jti).revoked_at # None
    ELSE TRUE

RefreshRequest(p) ==
    /\ CanStartIssuance(p)
    /\ \E t \in Presentable \cup {Orphan} :
         /\ IF CanIssue THEN TRUE ELSE NeverRotates(t)
         /\ LET pr0 == [IdleProc EXCEPT !.pc = "start", !.op = "refresh", !.token = t,
                           !.lateRot = \E r \in rotatedOut : r[1] = t.jti,
                           !.lateOut = t.jti \in loggedOut,
                           !.prev = IF /\ last.op = "refresh" /\ last.token = t
                                       /\ (last.status = 503 \/ last.body = "access_only")
                                    THEN last.at ELSE ""]
            IN \E o \in Then(get_redis(pr0), refresh_begin) : Move(p, o)
    /\ NoCommit
    /\ UNCHANGED << limiterVars, alertVars, lifetimeVars >>
    /\ UNCHANGED << settings, faulty, now, cache, nextId, clientAccess, rotatedOut, loggedOut >>

\* Defect seed: a failed cache lookup is skipped over in every mode.
on_validation_failure_skipped(pr) ==
    [pr EXCEPT !.pc = "r_select", !.redis = FALSE, !.did_fallback = TRUE]

\* is_refresh_jti_valid raised: 503 in strict mode; relaxed mode goes on with
\* the durable record alone.
on_validation_failure(pr) ==
    IF ~dev_relaxed_mode THEN Respond(pr, 503, "Service unavailable")
    ELSE [pr EXCEPT !.pc = "r_select", !.redis = FALSE, !.did_fallback = TRUE]

\* is_refresh_jti_valid: the result is logged, never used to decide.
refresh_cache_check(p) ==
    /\ procs[p].pc = "r_isvalid"
    /\ \E ok \in Call :
         LET pr == procs[p]
             o  == IF ok THEN [pr EXCEPT !.pc = "r_select",
                                         !.cache_hit = is_refresh_jti_valid(pr.token.jti)]
                   ELSE on_validation_failure(pr)
         IN Move(p, o)
    /\ NoCommit
    /\ UNCHANGED << limiterVars, alertVars, lifetimeVars >>
    /\ UNCHANGED << settings, faulty, now, cache, nextId, clientAccess, rotatedOut, loggedOut >>

\* Defect seed: the revoked-at check is missing.
RecordValidIgnoringRevoked(record, user_id) ==
    /\ record.exists
    /\ record.user_id = user_id
    /\ record.expires_at # None
    /\ ~(record.expires_at <= now)

\* Defect seed: the expiry check is missing.
RecordValidIgnoringExpiry(record, user_id) ==
    /\ record.exists
    /\ record.user_id = user_id
    /\ record.revoked_at = None

\* record is not None, is the user's, is not revoked, expires after now.
RecordValid(record, user_id) ==
    /\ record.exists
    /\ record.user_id = user_id
    /\ record.revoked_at = None
    /\ record.expires_at # None
    /\ ~(record.expires_at <= now)

\* Defect seed: a record whose id the cache does not hold is turned down.
refresh_validate_cached(pr, record) ==
    (pr.redis => pr.cache_hit) /\ RecordValid(record, pr.email)

\* The checks of refresh on the record it loaded.
refresh_validate(pr, record) == RecordValid(record, pr.email)

\* How the durable lookup and what follows it can end.
refresh_select_outcomes(pr) ==
    LET record == RecordOf(pr.token.jti)
    IN Failing({ IF dev_relaxed_mode
                 THEN [Rollback(pr) EXCEPT !.pc = "fb_commit"]
                 ELSE Respond(pr, 503, "Service unavailable") })
       \cup (IF ~refresh_validate(pr, record)
             THEN {Respond(pr, 401, "Refresh token invalid or revoked")}
             ELSE issue_tokens_with_persistence(
                      [pr EXCEPT !.tx.revoke = pr.token.jti,
                                 !.tx.revokedAt = now]))

\* The durable lookup, the checks on the record, and the rotation up to its
\* cache write.
refresh_select(p) ==
    /\ procs[p].pc = "r_select"
    /\ \E o \in refresh_select_outcomes(procs[p]) :
         /\ Move(p, o)
         /\ nextId' = IF o.new.jti # 0 THEN nextId + 1 ELSE nextId
    /\ NoCommit
    /\ UNCHANGED << limiterVars, alertVars, lifetimeVars >>
    /\ UNCHANGED << settings, faulty, now, cache, clientAccess, rotatedOut, loggedOut >>

\* Defect seed: a failed deletion of the old id is logged in every mode.
on_delete_failure_logged(pr) == [pr EXCEPT !.pc = "i_commit", !.did_fallback = TRUE]

\* Defect seed: a failed deletion of the old id is fatal in every mode.
on_delete_failure_fatal(pr) == OnPersistenceError(pr)

\* delete_refresh_jti raised: the rotation is abandoned in strict mode, flagged
\* in relaxed mode.
on_delete_failure(pr) ==
    IF ~dev_relaxed_mode THEN OnPersistenceError(pr)
    ELSE [pr EXCEPT !.pc = "i_commit", !.did_fallback = TRUE]

\* delete_refresh_jti(old_jti) after the new pair was issued.
refresh_delete(p) ==
    /\ procs[p].pc = "r_delete"
    /\ \E ok \in Call :
         LET pr == procs[p]
             o  == IF ok THEN [pr EXCEPT !.pc = "i_commit"]
                   ELSE on_delete_failure(pr)
         IN /\ cache' = IF ok THEN delete_refresh_jti(cache, pr.token.jti) ELSE cache
            /\ Move(p, o)
    /\ NoCommit
    /\ UNCHANGED << limiterVars, alertVars, lifetimeVars >>
    /\ UNCHANGED << settings, faulty, now, nextId, clientAccess, rotatedOut, loggedOut >>

\* _fallback_access_only and the commit after it: an access token, an audit
\* event flagged fallback, the presented refresh token echoed.
fallback_access_only(p) ==
    /\ procs[p].pc = "fb_commit"
    /\ \E dbok \in Call :
         LET pr == procs[p]
             ev == [pr EXCEPT !.tx.event = EventOf(pr.op), !.tx.fallback = TRUE]
         IN IF dbok
            THEN /\ Commit(ev)
                 /\ Move(p, RespondAccessOnly(pr))
                 /\ clientAccess' = clientAccess \cup {NewAccess(pr.email)}
            ELSE /\ NoCommit
                 /\ Move(p, Respond(pr, 500, "Internal Server Error"))
                 /\ UNCHANGED clientAccess
    /\ UNCHANGED << limiterVars, alertVars, lifetimeVars >>
    /\ UNCHANGED << settings, faulty, now, cache, nextId, rotatedOut, loggedOut >>

\* --------------------------------------------------------------- login
login_rate_limits(pr) ==
    LET second(o) == rate_limit_or_raise(o, "Too many login attempts")
    IN Then(rate_limit_or_raise(pr, "Too many login attempts"), second)

\* Defect seed: an email that is not registered is answered differently.
login_check_naming_user(pr, user, password_ok) ==
    Failing({OnUnexpected(pr)})
    \cup (IF ~user.exists
          THEN {Respond(Rollback(pr), 401, "Unknown email")}
          ELSE IF ~password_ok
          THEN {Respond(Rollback([pr EXCEPT !.tx.attempt = "failed"]),
                        401, "Invalid credentials")}
          ELSE IF ~user.is_active
          THEN {Respond(Rollback(pr), 403, "Account disabled")}
          ELSE issue_tokens_with_persistence([pr EXCEPT !.tx.attempt = "ok"]))

\* Defect seed: the account's is_active is not looked at.
login_check_ignoring_active(pr, user, password_ok) ==
    Failing({OnUnexpected(pr)})
    \cup (IF ~user.exists \/ ~password_ok
          THEN {Respond(Rollback([pr EXCEPT !.tx.attempt = "failed"]),
                        401, "Invalid credentials")}
          ELSE issue_tokens_with_persistence([pr EXCEPT !.tx.attempt = "ok"]))

\* AuthService.login on the row its SELECT returned, up to the cache write of
\* the issuance.  A failed attempt is added to the session and rolled back
\* with it.
login_check(pr, user, password_ok) ==
    Failing({OnUnexpected(pr)})
    \cup (IF ~user.exists \/ ~password_ok
          THEN {Respond(Rollback([pr EXCEPT !.tx.attempt = "failed"]),
                        401, "Invalid credentials")}
          ELSE IF ~user.is_active
          THEN {Respond(Rollback(pr), 403, "Account disabled")}
          ELSE issue_tokens_with_persistence([pr EXCEPT !.tx.attempt = "ok"]))

login(pr, password_ok) == login_check(pr, users[pr.email], password_ok)

\* POST /auth/login for a row and a password: the dependencies, the limiter
\* keyed by email and address, then the service.
login_outcomes(e, user, password_ok) ==
    LET pr0 == [IdleProc EXCEPT !.pc = "start", !.op = "login", !.email = e]
        body(o) == login_check(o, user, password_ok)
    IN Then(Then(get_redis(pr0), login_rate_limits), body)

LoginRequest(p) ==
    /\ CanStartIssuance(p)
    /\ \E e \in Registrants, password_ok \in BOOLEAN :
         /\ IF CanIssue THEN TRUE ELSE ~(users[e].exists /\ password_ok)
         /\ \E o \in login_outcomes(e, users[e], password_ok) :
                 /\ Move(p, o)
                 /\ nextId' = IF o.new.jti # 0 THEN nextId + 1 ELSE nextId
    /\ NoCommit
    /\ UNCHANGED << limiterVars, alertVars, lifetimeVars >>
    /\ UNCHANGED << settings, faulty, now, cache, clientAccess, rotatedOut, loggedOut >>

\* ------------------------------------------------------------ register
register_rate_limits(pr) ==
    LET second(o) == rate_limit_or_raise(o, "Too many registration attempts for this email")
    IN Then(rate_limit_or_raise(pr, "Too many registrations"), second)

\* AuthService.register: the lookup of the email.
register(pr) ==
    Failing({OnUnexpected(pr)})
    \cup { IF users[pr.email].exists
           THEN Respond(pr, 400, "Email already registered")
           ELSE [pr EXCEPT !.pc = "g_flush"] }

\* The spellings a client can send for an address, and str.lower() on them.
Spellings == {"alice", "Alice"}

lower(s) == CASE s = "Alice" -> "alice"
              [] OTHER       -> s

\* POST /auth/register with the email spelled raw.
RegisterWith(p, raw) ==
    LET e == lower(raw) IN
    /\ IF CanIssue THEN TRUE ELSE users[e].exists
    /\ LET pr0 == [IdleProc EXCEPT !.pc = "start", !.op = "register", !.email = e,
                                   !.submitted = raw]
       IN \E o \in Then(Then(get_redis(pr0), register_rate_limits), register) :
            Move(p, o)

RegisterRequest(p) ==
    /\ CanStartIssuance(p)
    /\ \E e \in Registrants : RegisterWith(p, e)
    /\ NoCommit
    /\ UNCHANGED << limiterVars, alertVars, lifetimeVars >>
    /\ UNCHANGED << settings, faulty, now, cache, nextId, clientAccess, rotatedOut, loggedOut >>

\* POST /auth/register by any of the accounts.
RegisterAnyone(p) ==
    /\ CanStartIssuance(p)
    /\ \E e \in Emails : RegisterWith(p, e)
    /\ NoCommit
    /\ UNCHANGED << limiterVars, alertVars, lifetimeVars >>
    /\ UNCHANGED << settings, faulty, now, cache, nextId, clientAccess, rotatedOut, loggedOut >>

\* AuthService._default_role: the role "user", inserted when it is not there.
default_role == IF "user" \in roles THEN "" ELSE "user"

\* Defect seed: users.email carries no unique index.
register_flush_without_index(p) ==
    /\ procs[p].pc = "g_flush"
    /\ LET pr == procs[p]
           S == issue_tokens_with_persistence(
                    [pr EXCEPT !.tx.addUser = pr.email, !.tx.addRole = default_role])
       IN \E o \in S : /\ Move(p, o)
                       /\ nextId' = IF o.new.jti # 0 THEN nextId + 1 ELSE nextId
    /\ NoCommit
    /\ UNCHANGED << limiterVars, alertVars, lifetimeVars >>
    /\ UNCHANGED << settings, faulty, now, cache, clientAccess, rotatedOut, loggedOut >>

\* The user and its default role are added; the INSERT of the user waits for an
\* open INSERT of the same email and fails on a committed one; then the
\* issuance up to its cache write.
register_flush(p) ==
    /\ procs[p].pc = "g_flush"
    /\ ~EmailLocked(p, procs[p].email)
    /\ LET pr == procs[p]
           S == Failing({OnUnexpected(pr)})
                \cup (IF users[pr.email].exists
                      THEN {Respond(pr, 400, "Invalid registration request")}
                      ELSE issue_tokens_with_persistence(
                               [pr EXCEPT !.tx.addUser = pr.email,
                                          !.tx.addRole = default_role]))
       IN \E o \in S : /\ Move(p, o)
                       /\ nextId' = IF o.new.jti # 0 THEN nextId + 1 ELSE nextId
    /\ NoCommit
    /\ UNCHANGED << limiterVars, alertVars, lifetimeVars >>
    /\ UNCHANGED << settings, faulty, now, cache, clientAccess, rotatedOut, loggedOut >>

\* -------------------------------------------------------------- logout
\* Dependency get_current_user: the bearer must be a live access token of an
\* active user.
get_current_user(pr, bearer) ==
    IF ~(decode_token(bearer) /\ ensure_token_type(bearer, "access"))
    THEN {Respond(pr, 401, "Invalid token")}
    ELSE IF bearer.sub = ""
    THEN {Respond(pr, 401, "Invalid token subject")}
    ELSE Failing({Respond(pr, 500, "Internal Server Error")})
         \cup { IF ~users[bearer.sub].exists \/ ~users[bearer.sub].is_active
                THEN Respond(pr, 403, "Inactive user")
                ELSE [pr EXCEPT !.email = bearer.sub] }

\* AuthService.logout up to the lookup of the record.
logout(pr) ==
    LET t == pr.token IN
    IF ~(decode_token(t) /\ ensure_token_type(t, "refresh")) \/ t.jti = 0
    THEN {Respond(pr, 401, "Invalid token")}
    ELSE IF ~redis_required THEN {[pr EXCEPT !.pc = "o_select"]}
    ELSE { IF ~c /\ ~dev_relaxed_mode THEN Respond(pr, 503, "Service unavailable")
           ELSE [pr EXCEPT !.pc = "o_select", !.redis = c]
           : c \in get_redis_client(pr) }

\* The bearer credentials a client can send: get_current_user answers every
\* refresh token alike, so one stands for all of them.
Bearers ==
    clientAccess \cup {Garbage}
    \cup (IF ClientRefresh = {} THEN {} ELSE {CHOOSE t \in ClientRefresh : TRUE})

LogoutRequest(p) ==
    /\ CanStart(p)
    /\ \E bearer \in Bearers :
         LET pr0 == [IdleProc EXCEPT !.pc = "start", !.op = "logout",
                                     !.bearer = bearer.kind]
         IN \E a \in Then(get_current_user(pr0, bearer), get_redis) :
              IF a.pc = "done" THEN Move(p, a)
              ELSE \E t \in Presentable \cup {Orphan} :
                     \E o \in logout([a EXCEPT !.token = t,
                                                !.lateRot = \E r \in rotatedOut : r[1] = t.jti,
                                                !.lateOut = t.jti \in loggedOut]) :
                        Move(p, o)
    /\ NoCommit
    /\ UNCHANGED << limiterVars, alertVars, lifetimeVars >>
    /\ UNCHANGED << settings, faulty, now, cache, nextId, clientAccess, rotatedOut, loggedOut >>

\* Defect seed: logout does not stamp the record.
logout_revoke_skipped(pr) == pr

\* record.revoked_at = now, when the record exists.
logout_revoke(pr) ==
    IF RecordOf(pr.token.jti).exists
    THEN [pr EXCEPT !.tx.revoke = pr.token.jti, !.tx.revokedAt = now]
    ELSE pr

\* The lookup of the record; a record found is stamped revoked in the session.
logout_select(p) ==
    /\ procs[p].pc = "o_select"
    /\ LET pr == procs[p]
           pr1 == logout_revoke(pr)
       IN \E o \in Failing({Respond(pr, 500, "Internal Server Error")})
                  \cup {[pr1 EXCEPT !.pc = IF redis_required /\ pr.redis
                                           THEN "o_delete" ELSE "o_session"]} :
            Move(p, o)
    /\ NoCommit
    /\ UNCHANGED << limiterVars, alertVars, lifetimeVars >>
    /\ UNCHANGED << settings, faulty, now, cache, nextId, clientAccess, rotatedOut, loggedOut >>

\* Defect seed: a failed deletion is logged in every mode.
logout_delete_lenient(p) ==
    /\ procs[p].pc = "o_delete"
    /\ \E ok \in Call :
         LET pr == procs[p]
         IN /\ cache' = IF ok THEN delete_refresh_jti(cache, pr.token.jti) ELSE cache
            /\ Move(p, [pr EXCEPT !.pc = "o_session"])
    /\ NoCommit
    /\ UNCHANGED << limiterVars, alertVars, lifetimeVars >>
    /\ UNCHANGED << settings, faulty, now, nextId, clientAccess, rotatedOut, loggedOut >>

\* delete_refresh_jti(jti) of logout: a failure is fatal in strict mode and
\* logged in relaxed mode.
logout_delete(p) ==
    /\ procs[p].pc = "o_delete"
    /\ \E ok \in Call :
         LET pr == procs[p]
             o  == IF ok \/ dev_relaxed_mode THEN [pr EXCEPT !.pc = "o_session"]
                   ELSE Respond(pr, 503, "Service unavailable")
         IN /\ cache' = IF ok THEN delete_refresh_jti(cache, pr.token.jti) ELSE cache
            /\ Move(p, o)
    /\ NoCommit
    /\ UNCHANGED << limiterVars, alertVars, lifetimeVars >>
    /\ UNCHANGED << settings, faulty, now, nextId, clientAccess, rotatedOut, loggedOut >>

\* Defect seed: the most recent session that is still active.
LatestActiveSession(user_id) ==
    LET mine == {j \in JtiIds : /\ sessions[j].exists
                                /\ sessions[j].user_id = user_id
                                /\ sessions[j].active}
    IN IF mine = {} THEN 0 ELSE CHOOSE j \in mine : \A k \in mine : k <= j

\* The user's most recently created session, 0 when there is none.
LatestSession(user_id) ==
    LET mine == {j \in JtiIds : sessions[j].exists /\ sessions[j].user_id = user_id}
    IN IF mine = {} THEN 0 ELSE CHOOSE j \in mine : \A k \in mine : k <= j

\* The lookup of the latest session, its deactivation, the audit event.
logout_session(p) ==
    /\ procs[p].pc = "o_session"
    /\ LET pr == procs[p]
       IN \E o \in Failing({Respond(pr, 500, "Internal Server Error")})
                  \cup {[pr EXCEPT !.tx.sessOff = LatestSession(pr.email),
                                   !.tx.event = EventOf(pr.op),
                                   !.pc = "o_commit"]} :
            Move(p, o)
    /\ NoCommit
    /\ UNCHANGED << limiterVars, alertVars, lifetimeVars >>
    /\ UNCHANGED << settings, faulty, now, cache, nextId, clientAccess, rotatedOut, loggedOut >>

logout_commit(p) ==
    /\ procs[p].pc = "o_commit"
    /\ \E dbok \in Call :
         LET pr == procs[p] IN
         IF dbok
         THEN /\ Commit(pr)
              /\ Move(p, [Respond(pr, 200, "") EXCEPT !.body = "logged out"])
              /\ loggedOut' = loggedOut \cup ({pr.token.jti} \cap JtiIds)
         ELSE /\ NoCommit
              /\ Move(p, Respond(pr, 500, "Internal Server Error"))
              /\ UNCHANGED loggedOut
    /\ UNCHANGED << limiterVars, alertVars, lifetimeVars >>
    /\ UNCHANGED << settings, faulty, now, cache, nextId, clientAccess, rotatedOut >>

\* ------------------------------------------------------------- users
\* UserService.update_user, called by an administrator: the account is enabled
\* or disabled, the audit event is recorded, the session commits.  Nothing
\* catches a store exception here: the session is closed without a commit.
update_user ==
    /\ \A p \in Procs : ~InFlight(p)
    /\ AuditTotal < MaxAudit
    /\ \E e \in Registrants, is_active \in BOOLEAN, dbok \in Call :
         /\ users[e].exists
         /\ IF dbok
            THEN /\ users' = [users EXCEPT ![e].is_active = is_active]
                 /\ audit_events' =
                        [audit_events EXCEPT
                            ![[event_type |-> "user.update", fallback |-> FALSE]] = @ + 1]
            ELSE UNCHANGED << users, audit_events >>
    /\ last' = NoResponse
    /\ UNCHANGED << limiterVars, alertVars, lifetimeVars >>
    /\ UNCHANGED << settings, faulty, now, roles, refresh_tokens, sessions,
                    login_attempts, cache, nextId, procs, clientAccess,
                    rotatedOut, loggedOut >>

\* ------------------------------------------- /me, users and sessions
\* The routes below are served by one worker at a time and are synchronous:
\* each runs its dependencies, its reads and writes and its commit as one
\* step.  Nothing catches a store exception in them: the answer is 500 and
\* the session is closed without a commit.
ManagedRoles == {"admin", "moderator"}

\* UserService.assign_role on behalf of another administrator: a role is
\* added to or removed from the user, the audit event is recorded.
assign_role ==
    /\ \A p \in Procs : ~InFlight(p)
    /\ AuditTotal < MaxAudit
    /\ \E e \in Registrants, role \in ManagedRoles, add \in BOOLEAN, dbok \in Call :
         /\ users[e].exists
         /\ IF dbok
            THEN /\ users' = [users EXCEPT ![e].roles =
                                  IF add THEN @ \cup {role} ELSE @ \ {role}]
                 /\ roles' = roles \cup {role}
                 /\ audit_events' =
                        [audit_events EXCEPT
                            ![[event_type |-> "user.role.update", fallback |-> FALSE]] = @ + 1]
            ELSE UNCHANGED << users, roles, audit_events >>
    /\ last' = NoResponse
    /\ UNCHANGED << limiterVars, alertVars, lifetimeVars >>
    /\ UNCHANGED << settings, faulty, now, refresh_tokens, sessions,
                    login_attempts, cache, nextId, procs, clientAccess,
                    rotatedOut, loggedOut >>

\* Defect seed: the roles claim of the token decides.
require_roles_of_token(pr, required) ==
    IF required \subseteq pr.token.roles THEN pr
    ELSE Respond(pr, 403, "Missing required roles: admin")

\* require_roles(*roles): the user get_current_user loaded has every role.
require_roles(pr, required) ==
    IF required \subseteq users[pr.email].roles THEN pr
    ELSE Respond(pr, 403, "Missing required roles: admin")

\* require_any_role(*roles): the user has one of the roles.
require_any_role(pr, any) ==
    IF users[pr.email].roles \cap any # {} THEN pr
    ELSE Respond(pr, 403, "Insufficient role privileges")

\* A request of kind op arrives with a bearer credential.
Arrived(op, bearer) ==
    [IdleProc EXCEPT !.pc = "start", !.op = op, !.bearer = bearer.kind, !.token = bearer]

Shown(pr, body) == [Respond(pr, 200, "") EXCEPT !.body = body]

\* The step of a request that writes nothing.
ReadOnly ==
    /\ NoCommit
    /\ UNCHANGED << limiterVars, alertVars, lifetimeVars >>
    /\ UNCHANGED << settings, faulty, now, cache, nextId, clientAccess, rotatedOut, loggedOut >>

\* GET /auth/me: UserOut.from_orm(current_user), the email as it is stored.
MeRequest(p) ==
    /\ CanStart(p)
    /\ \E bearer \in Bearers :
         LET me(o) == {Shown(o, "user")}
         IN \E o \in Then(get_current_user(Arrived("me", bearer), bearer), me) : Move(p, o)
    /\ ReadOnly

\* GET /users: any of admin and moderator, then the SELECT of the users.
ListUsersRequest(p) ==
    /\ CanStart(p)
    /\ \E bearer \in Bearers :
         LET list_users(o) ==
                 LET o1 == require_any_role(o, {"admin", "moderator"})
                 IN IF o1.pc = "done" THEN {o1}
                    ELSE Failing({Respond(o, 500, "Internal Server Error")})
                         \cup {Shown(o, "users")}
         IN \E o \in Then(get_current_user(Arrived("list_users", bearer), bearer), list_users) :
              Move(p, o)
    /\ ReadOnly

\* The step of a users or sessions route that writes: it commits the change
\* with its audit event, or answers without a commit.
Managed(p, o, event_type, us, rs, ss) ==
    /\ Move(p, o)
    /\ IF o.status = 200
       THEN /\ users' = us
            /\ roles' = rs
            /\ sessions' = ss
            /\ audit_events' =
                   [audit_events EXCEPT
                       ![[event_type |-> event_type, fallback |-> FALSE]] = @ + 1]
            /\ UNCHANGED << refresh_tokens, login_attempts >>
       ELSE NoCommit
    /\ UNCHANGED << limiterVars, alertVars, lifetimeVars >>
    /\ UNCHANGED << settings, faulty, now, cache, nextId, clientAccess, rotatedOut, loggedOut >>

\* What a route behind require_roles("admin") answers for a target row that
\* exists or not.
AdminOutcomes(op, bearer, found, detail) ==
    LET serve(o) ==
            LET o1 == require_roles(o, {"admin"})
            IN IF o1.pc = "done" THEN {o1}
               ELSE Failing({Respond(o, 500, "Internal Server Error")})
                    \cup {IF found THEN Shown(o, "user") ELSE Respond(o, 404, detail)}
    IN Then(get_current_user(Arrived(op, bearer), bearer), serve)

\* POST /users/{user_id}/roles: admin only; UserService.assign_role.
ModifyRolesRequest(p) ==
    /\ CanStart(p)
    /\ \E bearer \in Bearers, e \in Registrants, role \in ManagedRoles, add \in BOOLEAN :
         \E o \in AdminOutcomes("modify_roles", bearer, users[e].exists, "User not found") :
            Managed(p, o, "user.role.update",
                    [users EXCEPT ![e].roles = IF add THEN @ \cup {role} ELSE @ \ {role}],
                    roles \cup {role}, sessions)

\* PATCH /users/{user_id}: admin only; UserService.update_user.
UpdateUserRequest(p) ==
    /\ CanStart(p)
    /\ \E bearer \in Bearers, e \in Registrants, is_active \in BOOLEAN :
         \E o \in AdminOutcomes("update_user", bearer, users[e].exists, "User not found") :
            Managed(p, o, "user.update",
                    [users EXCEPT ![e].is_active = is_active], roles, sessions)

\* POST /sessions/{session_id}/revoke: admin only; the session is deactivated.
RevokeSessionRequest(p) ==
    /\ CanStart(p)
    /\ \E bearer \in Bearers, j \in JtiIds :
         \E o \in AdminOutcomes("revoke_session", bearer, sessions[j].exists,
                                "Session not found") :
            Managed(p, o, "session.revoke",
                    users, roles, [sessions EXCEPT ![j].active = FALSE])

\* ------------------------------------------------------- rate limiter
Min(a, b) == IF a <= b THEN a ELSE b

\* delta * refill_rate, refill_rate = capacity / period_seconds.
Refill(k, delta) ==
    (delta * TICK_SECONDS * LimUnit * RATE_LIMITS[k].capacity)
        \div RATE_LIMITS[k].period_seconds

\* Defect seed: the script never refills.
RATE_LIMIT_LUA_without_refill(b, k, t) ==
    LET cap    == RATE_LIMITS[k].capacity * LimUnit
        tokens == IF ~b.exists THEN cap ELSE b.tokens
    IN IF tokens < LimUnit
       THEN [ok |-> FALSE, refilled |-> tokens,
             b |-> [exists |-> TRUE, tokens |-> tokens, timestamp |-> t]]
       ELSE [ok |-> TRUE, refilled |-> tokens,
             b |-> [exists |-> TRUE, tokens |-> tokens - LimUnit, timestamp |-> t]]

\* Defect seed: the script admits without taking the token.
RATE_LIMIT_LUA_keeping_token(b, k, t) ==
    LET cap    == RATE_LIMITS[k].capacity * LimUnit
        tokens == IF ~b.exists THEN cap
                  ELSE Min(cap, b.tokens + Refill(k, t - b.timestamp))
    IN [ok |-> ~(tokens < LimUnit), refilled |-> tokens,
        b |-> [exists |-> TRUE, tokens |-> tokens, timestamp |-> t]]

\* The script, run by Redis as one command: refill, decide, write.
RATE_LIMIT_LUA(b, k, t) ==
    LET cap    == RATE_LIMITS[k].capacity * LimUnit
        tokens == IF ~b.exists THEN cap
                  ELSE Min(cap, b.tokens + Refill(k, t - b.timestamp))
    IN IF tokens < LimUnit
       THEN [ok |-> FALSE, refilled |-> tokens,
             b |-> [exists |-> TRUE, tokens |-> tokens, timestamp |-> t]]
       ELSE [ok |-> TRUE, refilled |-> tokens,
             b |-> [exists |-> TRUE, tokens |-> tokens - LimUnit, timestamp |-> t]]

\* EXPIRE key ttl, ttl = 2 * period_seconds.
ExpireBuckets(b, t) ==
    [k \in LimKeys |->
        IF b[k].exists /\ (t - b[k].timestamp) * TICK_SECONDS >= 2 * RATE_LIMITS[k].period_seconds
        THEN NoBucket ELSE b[k]]

Answer(cr, status, detail, by) ==
    [cr EXCEPT !.pc = "done", !.status = status, !.detail = detail, !.by = by]

\* The credential check of the login that the limiter let through.
credential_check(cr) ==
    IF cr.password_ok THEN Answer(cr, 200, "", "")
    ELSE Answer(cr, 401, "Invalid credentials", "")

\* Defect seed: without a store the limiter answers 429.
rate_limit_unavailable_refusing(cr, k) ==
    {Answer([cr EXCEPT !.fails = @ \cup {k}], 429, "Too many login attempts", k)}

\* rate_limit_or_raise without a store, or with a consume_token that raised:
\* relaxed mode lets the request through, strict mode answers 503.
rate_limit_unavailable(cr, k) ==
    IF dev_relaxed_mode THEN {[cr EXCEPT !.fails = @ \cup {k}, !.pc = "through"]}
    ELSE {Answer([cr EXCEPT !.fails = @ \cup {k}], 503, "Redis unavailable", k)}

\* rate_limit_or_raise up to its await of consume_token: the client given by
\* the route or a fresh one, and the time.time() of consume_token.
rate_limit_begin(cr, k) ==
    LET go == [cr EXCEPT !.pc = k, !.now = wall]
    IN IF cr.redis THEN {go}
       ELSE IF faulty THEN {go} \cup rate_limit_unavailable(cr, k)
       ELSE {go}

\* What follows a limiter call that let the request through: the handler's
\* limiter call after the dependency's, the service after the handler's.
RECURSIVE rate_limit_passed(_, _)
rate_limit_passed(cr, k) ==
    IF k = "email" THEN {credential_check(cr)}
    ELSE UNION { IF o.pc = "through" THEN rate_limit_passed(o, "email") ELSE {o}
                 : o \in rate_limit_begin(cr, "email") }

\* The dependency's limiter call, from the request's redis.
rate_limit_first(cr) ==
    UNION { IF o.pc = "through" THEN rate_limit_passed(o, "ip") ELSE {o}
            : o \in rate_limit_begin(cr, "ip") }

\* The history of a bucket after a call of the script with now = t.
KeyHistory(h, b, res, t, raced) ==
    LET fresh  == ~b.exists
        h1     == IF fresh THEN [NoKeyHistory EXCEPT !.full_at = t] ELSE h
        group  == ~fresh /\ h.gWall = wall
        adm    == IF res.ok THEN 1 ELSE 0
    IN [h1 EXCEPT !.calls     = @ + 1,
                  !.admitted  = @ + adm,
                  !.rejected  = IF res.ok THEN None ELSE t,
                  !.skew      = @ \/ (b.exists /\ t < b.timestamp),
                  !.gWall     = wall,
                  !.gStart    = IF group THEN h.gStart ELSE res.refilled,
                  !.gAdmitted = IF group THEN h.gAdmitted + adm ELSE adm,
                  !.gSkew     = (IF group THEN h.gSkew ELSE FALSE) \/ t # wall,
                  !.gRaced    = (IF group THEN h.gRaced ELSE FALSE) \/ raced]

\* The caller goes on, or its request is answered.
LimMove(c, o, h) ==
    IF o.pc = "done"
    THEN /\ callers' = [callers EXCEPT ![c] = IdleCaller]
         /\ lhist' = [h EXCEPT !.status = o.status, !.detail = o.detail,
                               !.by = o.by, !.fails = o.fails,
                               !.checked = @ + (IF o.status \in {200, 401} THEN 1 ELSE 0)]
    ELSE /\ callers' = [callers EXCEPT ![c] = o]
         /\ lhist' = [h EXCEPT !.status = 0, !.detail = "", !.by = "", !.fails = {}]

\* POST /auth/login arrives: get_redis, then the dependency's limiter call up
\* to its consume_token.
login_limited(c) ==
    /\ callers[c].pc = "idle"
    /\ lhist.started < MaxLimCalls
    /\ \E password_ok \in BOOLEAN, ping \in Call :
         LET cr == [IdleCaller EXCEPT !.password_ok = password_ok, !.redis = ping]
             S  == IF ~ping /\ ~dev_relaxed_mode
                   THEN {Answer(cr, 503, "Redis unavailable", "")}
                   ELSE rate_limit_first(cr)
         IN \E o \in S : LimMove(c, o, [lhist EXCEPT !.started = @ + 1])
    /\ UNCHANGED << wall, bucket >>
    /\ UNCHANGED << authVars, alertVars, lifetimeVars >>

\* consume_token: redis.eval of the script with the now taken before it, and
\* what rate_limit_or_raise and the route do with the result.
consume_token(c) ==
    /\ callers[c].pc \in LimKeys
    /\ \E ok \in Call :
         LET cr  == callers[c]
             k   == cr.pc
             res == RATE_LIMIT_LUA(bucket[k], k, cr.now)
             h   == [lhist EXCEPT !.keys[k] =
                        KeyHistory(@, bucket[k], res, cr.now,
                                   \A c2 \in Callers : callers[c2].pc = k)]
             nxt(o) == IF k = "ip" THEN rate_limit_passed(o, "ip")
                       ELSE rate_limit_passed(o, "email")
         IN IF ok
            THEN /\ bucket' = [bucket EXCEPT ![k] = res.b]
                 /\ \E o \in (IF res.ok THEN nxt(cr)
                               ELSE {Answer(cr, 429, "Too many login attempts", k)}) :
                        LimMove(c, o, h)
            ELSE /\ bucket' = bucket
                 /\ \E o \in UNION { IF u.pc = "through" THEN nxt(u) ELSE {u}
                                      : u \in rate_limit_unavailable(cr, k) } :
                        LimMove(c, o, lhist)
    /\ UNCHANGED wall
    /\ UNCHANGED << authVars, alertVars, lifetimeVars >>

\* The steps of a request that await a command sent to Redis:
\* is_refresh_jti_valid, cache_refresh_jti and delete_refresh_jti.
CacheCallPcs == {"r_isvalid", "i_cache", "r_delete", "o_delete"}

\* Redis holds the connection open and never answers the command: the client
\* of aioredis.from_url(url, ...) has no socket timeout and the await is not
\* bounded, so the request stays at its await.
redis_never_answers(p) ==
    /\ faulty
    /\ procs[p].pc \in CacheCallPcs
    /\ procs' = [procs EXCEPT ![p].pc = "awaiting"]
    /\ last' = NoResponse
    /\ NoCommit
    /\ UNCHANGED << limiterVars, alertVars, lifetimeVars >>
    /\ UNCHANGED << settings, faulty, now, cache, nextId, clientAccess, rotatedOut, loggedOut >>

\* Time passes; Redis drops the keys whose TTL has elapsed.
wall_tick ==
    /\ wall < MaxWall
    /\ wall' = wall + 1
    /\ bucket' = ExpireBuckets(bucket, wall + 1)
    /\ lhist' = [lhist EXCEPT !.status = 0, !.detail = "", !.by = "", !.fails = {}]
    /\ UNCHANGED callers
    /\ UNCHANGED << authVars, alertVars, lifetimeVars >>

\* -------------------------------------------------- anomaly and alerts
\* Python truthiness of an Optional[str]: None and "" are false.
Truthy(v) == v \notin {NoStr, ""}

\* Defect seed: a value that is missing counts as a value.
suspicious_login_check_on_missing(previous_ip, previous_ua, new_ip, new_ua) ==
    LET reasons == (IF previous_ip # new_ip THEN {"ip"} ELSE {})
                   \cup (IF previous_ua # new_ua THEN {"ua"} ELSE {})
    IN IF reasons = {} THEN "low"
       ELSE IF Cardinality(reasons) > 1 THEN "high" ELSE "medium"

\* The severity of suspicious_login_check: one reason per value that changed.
suspicious_login_check(previous_ip, previous_ua, new_ip, new_ua) ==
    LET reasons == (IF Truthy(previous_ip) /\ Truthy(new_ip) /\ previous_ip # new_ip
                    THEN {"ip"} ELSE {})
                   \cup (IF Truthy(previous_ua) /\ Truthy(new_ua) /\ previous_ua # new_ua
                         THEN {"ua"} ELSE {})
    IN IF reasons = {} THEN "low"
       ELSE IF Cardinality(reasons) > 1 THEN "high" ELSE "medium"

is_alertworthy(severity) == severity \in {"medium", "high"}

\* record_event after its flush: loop.create_task(alert_service.notify(...))
\* for a severity of medium or high; the task is not awaited.
create_task(ts, severity) ==
    IF is_alertworthy(severity) THEN Append(ts, NewTask(severity)) ELSE ts

IssueAnswer(is, status) ==
    [op |-> is.op, status |-> status, ip |-> is.ip, ua |-> is.ua,
     prev_ip |-> is.prev_ip, prev_ua |-> is.prev_ua, severity |-> is.severity,
     fallback |-> is.fallback, task |-> is.task,
     settled |-> IF is.task = 0 THEN FALSE ELSE alerts[is.task].state = "done"]

\* register, login or refresh from address ip with agent ua, up to the end of
\* _issue_tokens_with_persistence: the rows are flushed, the previous address
\* and agent are read from the user and overwritten in the session, the
\* verdict is computed, record_event flushes the audit row and creates the
\* alert task.  A flush that fails is answered 503, except that a refresh in
\* relaxed mode rolls back and goes through _fallback_access_only, which
\* tracks the login the same way.
IssueRequest ==
    /\ issuing.pc = "idle"
    /\ issuing.n < MaxIssues
    /\ \E op \in {"register", "login", "refresh"}, ip \in IPs, ua \in UAs,
          flushed \in Call, recorded \in Call :
         LET prev_ip  == profile.last_login_ip
             prev_ua  == profile.last_login_ua
             severity == suspicious_login_check(prev_ip, prev_ua, ip, ua)
             fallback == ~flushed /\ op = "refresh" /\ dev_relaxed_mode
             is == [IdleIssue EXCEPT !.pc = "commit", !.n = issuing.n + 1, !.op = op,
                                     !.ip = ip, !.ua = ua,
                                     !.prev_ip = prev_ip, !.prev_ua = prev_ua,
                                     !.severity = severity, !.fallback = fallback,
                                     !.task = IF is_alertworthy(severity)
                                              THEN Len(alerts) + 1 ELSE 0]
         IN /\ (op = "register") = ~profile.exists
            /\ is_alertworthy(severity) => Len(alerts) < MaxAlerts
            /\ IF (flushed \/ fallback) /\ recorded
               THEN /\ issuing' = is
                    /\ alerts' = create_task(alerts, severity)
                    /\ areply' = NoReply
               ELSE /\ issuing' = [IdleIssue EXCEPT !.n = issuing.n + 1]
                    /\ alerts' = alerts
                    /\ areply' = IssueAnswer([IdleIssue EXCEPT !.op = op, !.ip = ip, !.ua = ua], 503)
    /\ UNCHANGED << alert_channels, profile, flagged >>
    /\ UNCHANGED << authVars, limiterVars, lifetimeVars >>

\* Defect seed: the issuance awaits notify, and a delivery that failed fails it.
issue_db_commit_after_notify ==
    /\ issuing.pc = "commit"
    /\ issuing.task # 0 => alerts[issuing.task].state = "done"
    /\ IF issuing.task # 0 /\ "failed" \in {alerts[issuing.task].slack, alerts[issuing.task].email}
       THEN /\ areply' = IssueAnswer(issuing, 503)
            /\ UNCHANGED << profile, flagged >>
       ELSE /\ profile' = [exists |-> TRUE, last_login_ip |-> issuing.ip,
                           last_login_ua |-> issuing.ua]
            /\ flagged' = [flagged EXCEPT ![issuing.severity] = @ + 1]
            /\ areply' = IssueAnswer(issuing, 200)
    /\ issuing' = [IdleIssue EXCEPT !.n = issuing.n]
    /\ UNCHANGED << alert_channels, alerts >>
    /\ UNCHANGED << authVars, limiterVars, lifetimeVars >>

\* The caller's db.commit() and its answer: 200 with the tokens and the user
\* row and audit row committed, or 503 with nothing committed.
issue_db_commit ==
    /\ issuing.pc = "commit"
    /\ \E dbok \in Call :
         IF dbok
         THEN /\ profile' = [exists |-> TRUE, last_login_ip |-> issuing.ip,
                             last_login_ua |-> issuing.ua]
              /\ flagged' = [flagged EXCEPT ![issuing.severity] = @ + 1]
              /\ areply' = IssueAnswer(issuing, 200)
         ELSE /\ UNCHANGED << profile, flagged >>
              /\ areply' = IssueAnswer(issuing, 503)
    /\ issuing' = [IdleIssue EXCEPT !.n = issuing.n]
    /\ UNCHANGED << alert_channels, alerts >>
    /\ UNCHANGED << authVars, limiterVars, lifetimeVars >>

AlertStep(ts) ==
    /\ alerts' = ts
    /\ UNCHANGED << alert_channels, profile, flagged, issuing, areply >>
    /\ UNCHANGED << authVars, limiterVars, lifetimeVars >>

Settled(task) == task.slack # "pending" /\ task.email # "pending"

\* The task's state once a channel has ended: gather returns when both have.
Gathered(task) == IF Settled(task) THEN [task EXCEPT !.state = "done"] ELSE task

\* AlertService.notify starts: no channel configured, or one coroutine per
\* configured channel handed to asyncio.gather(return_exceptions=True).
notify(i) ==
    /\ i \in DOMAIN alerts
    /\ alerts[i].state = "created"
    /\ AlertStep([alerts EXCEPT ![i] =
           Gathered([@ EXCEPT !.state = "gathering",
                              !.slack = IF "slack" \in alert_channels
                                        THEN "pending" ELSE "none",
                              !.email = IF "email" \in alert_channels
                                        THEN "pending" ELSE "none"])])

\* _send_slack ends: the POST went through, or it raised (the 5 s timeout
\* included) and the exception was logged.
send_slack(i) ==
    /\ i \in DOMAIN alerts
    /\ alerts[i].slack = "pending"
    /\ \E result \in {"sent", "failed"} :
         AlertStep([alerts EXCEPT ![i] = Gathered([@ EXCEPT !.slack = result])])

\* _send_email ends: the thread of _send_email_blocking returned or raised.
\* smtplib.SMTP is opened without a timeout: the step may never come.
send_email(i) ==
    /\ i \in DOMAIN alerts
    /\ alerts[i].email = "pending"
    /\ \E result \in {"sent", "failed"} :
         AlertStep([alerts EXCEPT ![i] = Gathered([@ EXCEPT !.email = result])])

\* ------------------------------------------------ access-token lifetimes
\* timedelta(minutes=m), in ticks.
Minutes(m) == (m * 60) \div TICK_SECONDS

\* security._base_claims: the claims iat and exp of a token minted at t that
\* lives m minutes.
Claims(t, m) == [iat |-> t, exp |-> t + Minutes(m)]

\* security.create_access_token: exp = now_utc() + access_token_ttl_min.
create_access_token ==
    /\ minted' = [minted EXCEPT !.normal = Claims(wall, settings.access_token_ttl_min)]
    /\ UNCHANGED << authVars, limiterVars, alertVars >>

\* The token of _fallback_access_only, reached by a refresh in relaxed mode
\* after a store failed: exp = utcnow() + FALLBACK_ACCESS_TTL_MINUTES.
fallback_access_token ==
    /\ dev_relaxed_mode
    /\ faulty
    /\ minted' = [minted EXCEPT !.fallback = Claims(wall, FALLBACK_ACCESS_TTL_MINUTES)]
    /\ UNCHANGED << authVars, limiterVars, alertVars >>

\* ------------------------------------------------------- specification
Step(p) ==
    \/ RegisterRequest(p)
    \/ register_flush(p)
    \/ LoginRequest(p)
    \/ RefreshRequest(p)
    \/ refresh_cache_check(p)
    \/ refresh_select(p)
    \/ issue_cache(p)
    \/ refresh_delete(p)
    \/ issue_commit(p)
    \/ fallback_access_only(p)
    \/ LogoutRequest(p)
    \/ logout_select(p)
    \/ logout_delete(p)
    \/ logout_session(p)
    \/ logout_commit(p)

\* Requests served one at a time, over stores that can fail, while time
\* passes and the cache can lose its keys.
Next ==
    \/ Step(1)
    \/ update_user
    \/ Tick
    \/ RedisFlush

Spec == Init /\ [][Next]_vars

\* Registrations alone, one at a time, over stores that can fail.
NextRegister ==
    \/ RegisterRequest(1)
    \/ register_flush(1)
    \/ issue_cache(1)
    \/ issue_commit(1)

SpecRegister == Init /\ [][NextRegister]_vars

\* Registrations and logins, one at a time, over stores that can fail, while
\* an administrator disables and enables the account.
NextLogin ==
    \/ RegisterRequest(1)
    \/ register_flush(1)
    \/ LoginRequest(1)
    \/ issue_cache(1)
    \/ issue_commit(1)
    \/ update_user

SpecLogin == Init /\ [][NextLogin]_vars

\* Registrations and refreshes, one at a time, over stores that can fail,
\* while time passes and the cache can lose its keys.
NextRefresh ==
    \/ RegisterRequest(1)
    \/ register_flush(1)
    \/ RefreshRequest(1)
    \/ refresh_cache_check(1)
    \/ refresh_select(1)
    \/ issue_cache(1)
    \/ refresh_delete(1)
    \/ issue_commit(1)
    \/ fallback_access_only(1)
    \/ Tick
    \/ RedisFlush

SpecRefresh == Init /\ [][NextRefresh]_vars

\* Registrations and logouts, one at a time, over stores that can fail.
NextLogout ==
    \/ RegisterRequest(1)
    \/ register_flush(1)
    \/ issue_cache(1)
    \/ issue_commit(1)
    \/ LogoutRequest(1)
    \/ logout_select(1)
    \/ logout_delete(1)
    \/ logout_session(1)
    \/ logout_commit(1)

SpecLogout == Init /\ [][NextLogout]_vars

\* Registrations, refreshes and logouts, one at a time, over stores that can
\* fail.
NextSessions ==
    \/ RegisterRequest(1)
    \/ register_flush(1)
    \/ RefreshRequest(1)
    \/ refresh_cache_check(1)
    \/ refresh_select(1)
    \/ issue_cache(1)
    \/ refresh_delete(1)
    \/ issue_commit(1)
    \/ fallback_access_only(1)
    \/ LogoutRequest(1)
    \/ logout_select(1)
    \/ logout_delete(1)
    \/ logout_session(1)
    \/ logout_commit(1)

SpecSessions == Init /\ [][NextSessions]_vars

\* Two requests at a time, over stores that answer every call.
InitRace == Init /\ ~faulty

StepRace(p) ==
    \/ RegisterRequest(p)
    \/ register_flush(p)
    \/ LoginRequest(p)
    \/ RefreshRequest(p)
    \/ refresh_cache_check(p)
    \/ refresh_select(p)
    \/ issue_cache(p)
    \/ refresh_delete(p)
    \/ issue_commit(p)
    \/ LogoutRequest(p)
    \/ logout_select(p)
    \/ logout_delete(p)
    \/ logout_session(p)
    \/ logout_commit(p)

NextRace == \E p \in Procs : StepRace(p)

SpecRace == InitRace /\ [][NextRace]_vars

\* Requests served one at a time by a worker that takes every step it can,
\* over stores that can fail and a Redis that can stop answering.
InitHang == Init /\ faulty
NextHang ==
    \/ Step(1)
    \/ redis_never_answers(1)
SpecHang == InitHang /\ [][NextHang]_vars /\ WF_vars(Step(1))

\* Login requests through the limiter, one at a time, over a Redis that can
\* fail, while time passes.
InitLimiter == Init /\ settings.refresh_persistence = "db"

NextLimiter ==
    \/ login_limited(1)
    \/ consume_token(1)
    \/ wall_tick

SpecLimiter == InitLimiter /\ [][NextLimiter]_vars

\* Login requests through the limiter, two at a time, over a Redis that
\* answers, while time passes.
InitLimiterRace == InitLimiter /\ ~faulty

NextLimiterRace ==
    \/ \E c \in Callers : login_limited(c)
    \/ \E c \in Callers : consume_token(c)
    \/ wall_tick

SpecLimiterRace == InitLimiterRace /\ [][NextLimiterRace]_vars

\* Issuances from changing addresses and agents, one at a time, with alert
\* channels configured or not, while the alert tasks run on the event loop.
InitAlerts ==
    /\ InitStores
    /\ settings.refresh_persistence = "db"
    /\ alert_channels \in SUBSET Channels

NextAlerts ==
    \/ IssueRequest
    \/ issue_db_commit
    \/ \E i \in 1 .. MaxAlerts : notify(i)
    \/ \E i \in 1 .. MaxAlerts : send_slack(i)
    \/ \E i \in 1 .. MaxAlerts : send_email(i)

SpecAlerts == InitAlerts /\ [][NextAlerts]_vars

\* Two accounts: registrations of either, logins, and logouts that present any
\* bearer with any refresh token a client holds, one request at a time.
NextUsers ==
    \/ RegisterAnyone(1)
    \/ register_flush(1)
    \/ LoginRequest(1)
    \/ issue_cache(1)
    \/ issue_commit(1)
    \/ LogoutRequest(1)
    \/ logout_select(1)
    \/ logout_delete(1)
    \/ logout_session(1)
    \/ logout_commit(1)

SpecUsers == Init /\ [][NextUsers]_vars

\* Access tokens of both kinds minted as time passes, under every
\* ACCESS_TOKEN_TTL_MIN of TtlChoices.
InitLifetimes == InitWith(TtlChoices) /\ alert_channels = {}

NextLifetimes ==
    \/ create_access_token
    \/ fallback_access_token
    \/ wall_tick

SpecLifetimes == InitLifetimes /\ [][NextLifetimes]_vars

\* Accounts: registrations under any spelling, logins, /me, and the users and
\* sessions routes, one request at a time, over stores that can fail, while
\* other administrators change the memberships.
RegisterSpelled(p) ==
    /\ CanStart(p)
    /\ \E raw \in Spellings : RegisterWith(p, raw)
    /\ NoCommit
    /\ UNCHANGED << limiterVars, alertVars, lifetimeVars >>
    /\ UNCHANGED << settings, faulty, now, cache, nextId, clientAccess, rotatedOut, loggedOut >>

NextAccounts ==
    \/ RegisterSpelled(1)
    \/ register_flush(1)
    \/ LoginRequest(1)
    \/ issue_cache(1)
    \/ issue_commit(1)
    \/ MeRequest(1)
    \/ ListUsersRequest(1)
    \/ ModifyRolesRequest(1)
    \/ UpdateUserRequest(1)
    \/ RevokeSessionRequest(1)
    \/ assign_role

SpecAccounts == Init /\ [][NextAccounts]_vars

\* ============================================================ properties
Tables == << users, roles, refresh_tokens, sessions, audit_events, login_attempts >>

\* What the protocol asks of a record before it is rotated: it exists, belongs
\* to the token's subject, is not revoked, and expires after now.
Acceptable(record, t) ==
    /\ record.exists
    /\ record.user_id = t.sub
    /\ record.revoked_at = None
    /\ record.expires_at > now

Rotated == last.op = "refresh" /\ last.body = "pair"

\* The answers to a refresh that is not rotated: 401; or, when a store call
\* failed, 500 or 503, or in relaxed mode the access-only fallback that echoes
\* the presented token with the warning.
NotRotated ==
    /\ last.body # "pair"
    /\ \/ last.status = 401
       \/ faulty /\ last.status \in {500, 503}
       \/ /\ faulty /\ dev_relaxed_mode
          /\ last.at = "fb_commit"
          /\ last.status = 200
          /\ last.body = "access_only"
          /\ last.out = last.token
          /\ last.warning = FALLBACK_REFRESH_WARNING

C2_ExactlyOneRotation ==
    \A r1, r2 \in rotatedOut : r1[1] = r2[1] => r1[2] = r2[2]

C4_RotationNeedsValidRecord ==
    [][\A p \in Procs :
          LET t  == procs[p].token
              ok == Acceptable(RecordOf(t.jti), t)
          IN /\ (procs[p].pc = "r_select" /\ procs'[p] # procs[p]) =>
                   /\ procs'[p].tx.revoke # 0 => ok
                   /\ ~ok => /\ Tables' = Tables
                             /\ \/ last'.op = "refresh" /\ last'.status = 401
                                \/ faulty /\ last'.status = 503
                                \/ faulty /\ procs'[p].pc = "fb_commit"
             /\ (procs[p].op = "refresh" /\ refresh_tokens' # refresh_tokens) => ok
      ]_vars

\* The record is unexpired for jose and expired for refresh, and not revoked:
\* the signature is valid and the refresh was answered 401.
C4_Witness ==
    /\ last.op = "refresh"
    /\ last.at = "r_select"
    /\ last.status = 401
    /\ RecordOf(last.token.jti).exists
    /\ RecordOf(last.token.jti).revoked_at = None
    /\ RecordOf(last.token.jti).expires_at <= now

\* ---------------------------------------------------------------------- C5
\* C5: in strict mode no request is ever on the fallback path: a refresh
\* answered 200 carries a rotated pair with another refresh token and no
\* warning, and no audit event is flagged fallback, whatever calls fail.
C5_StrictNeverFallsBack ==
    ~dev_relaxed_mode =>
        /\ \A p \in Procs : procs[p].pc # "fb_commit"
        /\ last.body # "access_only"
        /\ last.warning = ""
        /\ (last.op = "refresh" /\ last.status = 200) =>
               last.body = "pair" /\ last.out # last.token
        /\ \A e \in EventTypes : audit_events[[event_type |-> e, fallback |-> TRUE]] = 0

\* Strict mode: the durable lookup of a refresh failed and the answer was 503.
C5_Witness ==
    /\ ~dev_relaxed_mode
    /\ last.op = "refresh"
    /\ last.at = "r_select"
    /\ last.status = 503

\* ---------------------------------------------------------------------- C6
\* C6 as claimed: a refresh answered on the fallback access-only path leaves
\* the presented token's record non-revoked (so that the token rotates later).
C6_FallbackLeavesTokenValid ==
    last.body = "access_only" => RecordOf(last.token.jti).revoked_at = None

FallbackAudit == [event_type |-> "user.refresh", fallback |-> TRUE]

\* C6, amended: the fallback access-only answer is given only by refresh in
\* relaxed mode; its step commits no RefreshRecord, SessionRecord or user, and
\* leaves the presented token's record as it was (revoked if it was revoked);
\* it adds one audit event flagged fallback and returns the presented refresh
\* token with the warning.  A later refresh of that token that the durable
\* store answers is refused only if the record is not acceptable, and is
\* rotated otherwise.
C6_FallbackChangesNoRecord ==
    [][/\ last'.body = "access_only" =>
            /\ dev_relaxed_mode
            /\ last'.op = "refresh"
            /\ last'.status = 200
            /\ last'.out = last'.token
            /\ last'.warning = FALLBACK_REFRESH_WARNING
            /\ last'.warning # ""
            /\ refresh_tokens' = refresh_tokens
            /\ sessions' = sessions
            /\ users' = users
            /\ login_attempts' = login_attempts
            /\ audit_events' = [audit_events EXCEPT ![FallbackAudit] = @ + 1]
       /\ (/\ last'.op = "refresh" /\ last'.prev = "fb_commit"
           /\ last'.at = "r_select" /\ last'.status = 401) =>
              ~Acceptable(RecordOf(last'.token.jti), last'.token)
       /\ \A p \in Procs :
            (/\ procs[p].pc = "r_select" /\ procs[p].prev = "fb_commit"
             /\ Acceptable(RecordOf(procs[p].token.jti), procs[p].token)) =>
                \E o \in refresh_select_outcomes(procs[p]) : o.tx.revoke = procs[p].token.jti
      ]_vars

\* A token that was echoed by the fallback path is rotated by the next refresh.
C6_Witness ==
    /\ Rotated
    /\ last.prev = "fb_commit"
    /\ RecordOf(last.token.jti).revoked_at # None
    /\ RecordOf(last.out.jti).exists

\* ---------------------------------------------------------------------- C7
\* C7: whatever call of a refresh fails, each of its steps either commits the
\* whole rotation (the old record revoked, the new RefreshRecord and
\* SessionRecord inserted, 200 with the pair) or leaves the refresh and session
\* records as they were; in strict mode a failed deletion of the old id from
\* the cache is answered 503 with the presented record still acceptable, and
\* a retry with the same token is rotated.
C7_RotationAllOrNothing ==
    [][\A p \in Procs :
          (procs[p].op = "refresh" /\ procs'[p] # procs[p]) =>
              LET t   == procs[p].token
                  new == procs[p].new
              IN /\ IF last'.body = "pair"
                    THEN /\ RecordOf(t.jti).revoked_at = None
                         /\ RecordIn(refresh_tokens', t.jti).revoked_at # None
                         /\ last'.out = new
                         /\ ~RecordOf(new.jti).exists
                         /\ ~sessions[new.jti].exists
                         /\ Acceptable(RecordIn(refresh_tokens', new.jti), new)
                         /\ sessions'[new.jti] =
                                [exists |-> TRUE, user_id |-> t.sub, active |-> TRUE]
                         /\ \A j \in JtiIds \ {t.jti, new.jti} :
                                /\ refresh_tokens'[j] = refresh_tokens[j]
                                /\ sessions'[j] = sessions[j]
                    ELSE /\ refresh_tokens' = refresh_tokens
                         /\ sessions' = sessions
                         /\ users' = users
                 /\ (procs[p].pc = "r_delete" /\ ~dev_relaxed_mode) =>
                        \/ /\ KeyIn(cache', t.jti) = None
                           /\ procs'[p].pc = "i_commit"
                        \/ /\ cache' = cache
                           /\ last'.status = 503
                           /\ last'.detail = "Service unavailable"
                           /\ Acceptable(RecordIn(refresh_tokens', t.jti), t)
                           /\ ~RecordIn(refresh_tokens', new.jti).exists
      ]_vars

\* Strict mode: the deletion of the old id failed, the refresh was answered
\* 503, and the retry with the same token was rotated.
C7_Witness ==
    /\ ~dev_relaxed_mode
    /\ Rotated
    /\ last.prev = "r_delete"
    /\ RecordOf(last.token.jti).revoked_at # None
    /\ RecordOf(last.out.jti).exists
    /\ sessions[last.out.jti].exists

Uncached(S) == {[o EXCEPT !.cache_hit = FALSE] : o \in S}

\* C10: for a refresh that reached the cache, the ways the durable lookup and
\* the rotation can end are the same whether the cache held the presented id
\* or not; a rotation is started only for an acceptable record (a hit makes no
\* revoked or expired record acceptable), and is started for every acceptable
\* record (a miss is not treated as invalid).
C10_CacheOnlyAccelerates ==
    \A p \in Procs :
        (procs[p].pc = "r_select" /\ procs[p].redis) =>
            LET pr   == procs[p]
                ok   == Acceptable(RecordOf(pr.token.jti), pr.token)
                hit  == refresh_select_outcomes([pr EXCEPT !.cache_hit = TRUE])
                miss == refresh_select_outcomes([pr EXCEPT !.cache_hit = FALSE])
            IN /\ Uncached(hit) = Uncached(miss)
               /\ \A o \in hit \cup miss : o.tx.revoke # 0 => ok
               /\ ok => /\ \E o \in miss : o.tx.revoke = pr.token.jti
                        /\ \A o \in miss : o.status # 401
               /\ ~ok => \E o \in hit : o.status = 401

\* The cache held the id of a revoked record and the refresh was answered 401.
C10_Witness ==
    /\ last.op = "refresh"
    /\ last.at = "r_select"
    /\ last.cache_hit
    /\ last.status = 401
    /\ RecordOf(last.token.jti).revoked_at # None

\* --------------------------------------------------------------------- C11
\* C11: every step of a register request either commits the user row with
\* its default role, one RefreshRecord and one SessionRecord (and the audit
\* event) and answers 200 with the pair, or commits nothing and answers
\* without a pair, whatever store call fails.
C11_RegisterAtomic ==
    [][\A p \in Procs :
          (procs[p].op = "register" /\ procs'[p] # procs[p]) =>
              LET e   == procs[p].email
                  new == procs[p].new
              IN IF last'.body = "pair"
                 THEN /\ last'.status = 200
                      /\ last'.out = new
                      /\ ~users[e].exists
                      /\ users'[e] = [exists |-> TRUE, is_active |-> TRUE, roles |-> {"user"}]
                      /\ users'[e].roles \subseteq roles'
                      /\ ~RecordOf(new.jti).exists
                      /\ ~sessions[new.jti].exists
                      /\ Acceptable(RecordIn(refresh_tokens', new.jti), new)
                      /\ new.sub = e
                      /\ sessions'[new.jti] = [exists |-> TRUE, user_id |-> e, active |-> TRUE]
                      /\ \A j \in JtiIds \ {new.jti} :
                             /\ refresh_tokens'[j] = refresh_tokens[j]
                             /\ sessions'[j] = sessions[j]
                      /\ AuditCount("user.register")' = AuditCount("user.register") + 1
                 ELSE /\ Tables' = Tables
                      /\ last'.out = NoToken
      ]_vars

\* The commit of a register failed: 503, and no user row.
C11_Witness ==
    /\ last.op = "register"
    /\ last.at = "i_commit"
    /\ last.status = 503
    /\ ~users[last.email].exists
    /\ roles = {}
    /\ \A j \in JtiIds : ~refresh_tokens[j].exists /\ ~sessions[j].exists

\* --------------------------------------------------------------------- C12
\* C12 as claimed: a login answered 401 for its credentials leaves one more
\* LoginAttempt row with success = false for the attempted email, and a login
\* answered 200 one more with success = true; no row is ever removed.
C12_LoginAttemptsRecorded ==
    [][/\ (last'.op = "login" /\ last'.status = 401) =>
              login_attempts'[<<last'.email, FALSE>>] = login_attempts[<<last'.email, FALSE>>] + 1
       /\ (last'.op = "login" /\ last'.status = 200) =>
              login_attempts'[<<last'.email, TRUE>>] = login_attempts[<<last'.email, TRUE>>] + 1
       /\ \A k \in Emails \X BOOLEAN : login_attempts'[k] >= login_attempts[k]
      ]_vars

\* --------------------------------------------------------------------- C13
\* C13: a login with an email that is not registered (whatever the password)
\* and a login with a registered email and a wrong password can end in the
\* same ways: the same answers (401 'Invalid credentials' when the limiter
\* admits and the stores answer), nothing committed.
C13_NoUserOracle ==
    \A e \in Emails :
        users[e].exists =>
            LET wrong == login_outcomes(e, users[e], FALSE)
            IN /\ \A pw \in BOOLEAN : login_outcomes(e, NoUser, pw) = wrong
               /\ \A o \in wrong :
                      /\ o.pc = "done"
                      /\ o.body = "none"
                      /\ o.tx = EmptyTx
                      /\ o.status \in {401, 429, 503}
                      /\ o.status = 401 => o.detail = "Invalid credentials"
               /\ \E o \in wrong : o.status = 401

\* A login with a registered email and a wrong password was answered 401.
C13_Witness ==
    /\ last.op = "login"
    /\ last.status = 401
    /\ last.detail = "Invalid credentials"
    /\ users[last.email].exists
    /\ users[last.email].is_active

\* --------------------------------------------------------------------- C14
Disabled(e) == users[e].exists /\ ~users[e].is_active

\* C14: a login for a disabled account returns no token and commits nothing;
\* with the right password it is answered 403 'Account disabled' (503 when a
\* store fails), with a wrong password 401 as for any account, so only the
\* right password shows that the account is disabled.
C14_DisabledAccount ==
    [][\A e \in Emails :
          Disabled(e) =>
              /\ \A o \in login_check([IdleProc EXCEPT !.op = "login", !.email = e],
                                      users[e], TRUE) :
                     /\ o.pc = "done" /\ o.body = "none" /\ o.tx = EmptyTx
                     /\ o.status = 403 \/ (faulty /\ o.status = 503)
                     /\ o.status = 403 => o.detail = "Account disabled"
              /\ \A o \in login_check([IdleProc EXCEPT !.op = "login", !.email = e],
                                      users[e], FALSE) :
                     /\ o.pc = "done" /\ o.body = "none" /\ o.tx = EmptyTx
                     /\ o.status = 401 \/ (faulty /\ o.status = 503)
              /\ (last'.op = "login" /\ last'.email = e) =>
                     /\ last'.body = "none"
                     /\ last'.out = NoToken
                     /\ last'.status \in {401, 403, 429, 503}
                     /\ Tables' = Tables
                     /\ clientAccess' = clientAccess
              /\ \A p \in Procs : procs'[p].op = "login" => procs'[p].email # e
      ]_vars

\* A login for a disabled account was answered 403.
C14_Witness ==
    /\ last.op = "login"
    /\ last.status = 403
    /\ last.detail = "Account disabled"
    /\ Disabled(last.email)
    /\ \E j \in JtiIds : refresh_tokens[j].exists

\* --------------------------------------------------------------------- C19
\* C19 as claimed: register, login, refresh and logout answer 200 or one of
\* 400, 401, 403, 429, 503, whatever store call fails: never the 500 of an
\* exception that nothing translated.
C19_FailuresTranslated ==
    last.op \in {"register", "login", "refresh", "logout"} =>
        last.status \in {200, 400, 401, 403, 429, 503}

\* --------------------------------------------------------------------- C15
\* Seconds from the call that found the bucket full to the latest call.
SinceFull(k) == (bucket[k].timestamp - lhist.keys[k].full_at) * TICK_SECONDS

\* C15 as claimed: of the calls made within P seconds of the one that found
\* the bucket full, exactly the first C are admitted.
C15_ExactlyCapacityPerPeriod ==
    \A k \in LimKeys :
        LET h == lhist.keys[k]
        IN (h.full_at # None /\ SinceFull(k) < RATE_LIMITS[k].period_seconds) =>
               h.admitted = Min(h.calls, RATE_LIMITS[k].capacity)

\* C15, amended: of the calls made from a full bucket within less than P/C
\* seconds (before one token is refilled), exactly the first C are admitted;
\* over a longer time the bucket admits the C tokens it held and those
\* refilled since, at C/P a second, and no more; and a call made P/C seconds
\* or more after a refused call is admitted.
C15_TokenBucket ==
    [][\A k \in LimKeys :
          LET h  == lhist.keys[k]
              h1 == lhist'.keys[k]
              C  == RATE_LIMITS[k].capacity
          IN /\ h1.full_at # None =>
                   LET elapsed == bucket'[k].timestamp - h1.full_at
                   IN /\ Refill(k, elapsed) < LimUnit => h1.admitted = Min(h1.calls, C)
                      /\ h1.admitted * LimUnit <= C * LimUnit + Refill(k, elapsed)
                      /\ h1.admitted * LimUnit + bucket'[k].tokens
                             <= C * LimUnit + Refill(k, elapsed)
                      /\ bucket'[k].tokens >= 0
             /\ (/\ h1 # h
                 /\ h.rejected # None
                 /\ Refill(k, bucket'[k].timestamp - h.rejected) >= LimUnit) =>
                    /\ h1.rejected = None
                    /\ h1.admitted = h.admitted + 1
      ]_vars

\* The bucket admitted five calls at once, refused the sixth, and admitted
\* the seventh P/C seconds later.
C15_Witness ==
    LET h == lhist.keys["ip"]
    IN /\ h.full_at = 0
       /\ h.calls = 7
       /\ h.admitted = 6
       /\ h.rejected = None
       /\ bucket["ip"].timestamp * TICK_SECONDS * RATE_LIMITS["ip"].capacity
              = RATE_LIMITS["ip"].period_seconds
       /\ bucket["ip"].tokens = 0

\* --------------------------------------------------------------------- C16
\* The run so far is faster than either bucket refills one token.
Rapid(t) == \A k \in LimKeys : Refill(k, t) < LimUnit

\* C16: of a run of login requests for one email from one address, made
\* from fresh buckets over a Redis that answers and faster than either
\* bucket refills one token, the first 5 reach the credential check (200 or,
\* for a wrong password, 401) and each later one is answered 429 by a
\* limiter call, with no credential check, whatever the earlier answers were.
C16_LoginRateLimit ==
    [][(/\ ~faulty
        /\ Rapid(wall')
        /\ callers[1].pc \in LimKeys
        /\ callers'[1].pc = "idle") =>
           IF lhist.checked < 5
           THEN /\ lhist'.status = (IF callers[1].password_ok THEN 200 ELSE 401)
                /\ lhist'.checked = lhist.checked + 1
                /\ callers[1].pc = "email"
           ELSE /\ lhist'.status = 429
                /\ lhist'.detail = "Too many login attempts"
                /\ lhist'.checked = lhist.checked
                /\ lhist'.by = callers[1].pc
      ]_vars

\* The sixth request of a rapid run was answered 429 after five credential
\* checks.
C16_Witness ==
    /\ ~faulty
    /\ Rapid(wall)
    /\ lhist.started = 6
    /\ lhist.checked = 5
    /\ lhist.status = 429
    /\ callers[1].pc = "idle"

\* --------------------------------------------------------------------- C17
\* C17: of the consume calls on one key made, in any interleaving, while no
\* time elapses, no more are admitted than the bucket held whole tokens
\* before the first of them, at most the capacity, and every admission is
\* in the stored count: no update is lost.
C17_AtomicPerKey ==
    \A k \in LimKeys :
        LET h == lhist.keys[k]
        IN (h.gWall # None /\ ~h.gSkew /\ bucket[k].exists) =>
               /\ h.gAdmitted * LimUnit <= h.gStart
               /\ h.gStart <= RATE_LIMITS[k].capacity * LimUnit
               /\ bucket[k].tokens = h.gStart - h.gAdmitted * LimUnit
               /\ bucket[k].timestamp = h.gWall

\* Two calls on one key were awaited together at the last token: one was
\* admitted and the other refused.
C17_Witness ==
    LET h == lhist.keys["ip"]
    IN /\ h.gRaced
       /\ ~h.gSkew
       /\ h.gStart = RATE_LIMITS["ip"].capacity * LimUnit
       /\ h.gAdmitted * LimUnit = h.gStart
       /\ h.rejected # None
       /\ h.calls = h.gAdmitted + 1
       /\ lhist.by = "ip"

\* --------------------------------------------------------------------- C18
\* The limiter calls that found no store, or whose consume_token raised, in
\* the step just taken.
FailedNow ==
    (IF callers'[1].pc = "idle" THEN lhist'.fails ELSE callers'[1].fails)
        \ callers[1].fails

\* C18: a limiter call that finds no store, or whose consume_token raises,
\* answers 503 "Redis unavailable" in strict mode and lets the request go on
\* in relaxed mode; it never answers 429; and in strict mode no request
\* reaches the credential check without a token taken from each bucket.
C18_LimiterFallback ==
    [][/\ FailedNow # {} =>
             IF dev_relaxed_mode
             THEN lhist'.status \in {0, 200, 401}
             ELSE /\ lhist'.status = 503
                  /\ lhist'.detail = "Redis unavailable"
                  /\ lhist'.by \in FailedNow
                  /\ lhist'.checked = lhist.checked
       /\ lhist'.status = 429 => lhist'.by \notin lhist'.fails
       /\ ~dev_relaxed_mode =>
             /\ lhist'.status \in {200, 401} => lhist'.fails = {}
             /\ lhist'.checked = lhist'.keys["email"].admitted
             /\ lhist'.checked <= lhist'.keys["ip"].admitted
      ]_vars

\* Relaxed mode, no store for either limiter call: a sixth request of a
\* rapid run reached the credential check.
C18_Witness ==
    /\ dev_relaxed_mode
    /\ wall = 0
    /\ lhist.fails = LimKeys
    /\ lhist.checked = 6
    /\ lhist.status = 401

\* --------------------------------------------------------------------- C20
\* C20 as claimed: every request is eventually answered, also when a command
\* sent to the cache is never answered.
C20_EveryRequestCompletes == InFlight(1) ~> ~InFlight(1)

\* --------------------------------------------------------------------- C21
\* C21 as claimed: no RefreshRecord is ever deleted, and a committed
\* revoked-at is never unset and never stamped again by a later refresh or
\* logout.
C21_RevokedAtSetOnce ==
    [][\A j \in JtiIds :
          /\ refresh_tokens[j].exists => refresh_tokens'[j].exists
          /\ (refresh_tokens[j].exists /\ refresh_tokens[j].revoked_at # None) =>
                 refresh_tokens'[j].revoked_at = refresh_tokens[j].revoked_at
      ]_vars

\* --------------------------------------------------------------------- C22
RevokedSet == {j \in JtiIds : refresh_tokens[j].exists /\ refresh_tokens[j].revoked_at # None}
ActiveSet == {j \in JtiIds : sessions[j].exists /\ sessions[j].active}

\* The session of u created last, in the sessions table ss.
NewestIn(ss, u) ==
    LET mine == {j \in JtiIds : ss[j].exists /\ ss[j].user_id = u}
    IN IF mine = {} THEN 0 ELSE CHOOSE j \in mine : \A k \in mine : k <= j

NewestSession(u) == NewestIn(sessions, u)

\* The tables rt and ss are as a logout of token id j by user u leaves them.
AsLoggedOutIn(rt, ss, j, u) ==
    /\ (j \in JtiIds /\ rt[j].exists) => rt[j].revoked_at # None
    /\ NewestIn(ss, u) # 0 => ~ss[NewestIn(ss, u)].active

AsLoggedOut(j, u) == AsLoggedOutIn(refresh_tokens, sessions, j, u)

\* C22: a logout by an authenticated user with an unexpired refresh-type
\* token is answered 200, when the stores answer, whether or not the table
\* holds a record of that id; it adds the record, if there is one, to the
\* revoked records and takes the user's newest session from the active ones;
\* and a logout that finds the state as a logout of the same token by the
\* same user leaves it is answered 200 again and changes neither set.
C22_LogoutIdempotent ==
    [][/\ (/\ last'.op = "logout"
           /\ last'.token.kind = "refresh"
           /\ decode_token(last'.token)
           /\ ~faulty) => last'.status = 200
       /\ (last'.op = "logout" /\ last'.status = 200) =>
             LET j == last'.token.jti
                 u == last'.email
             IN /\ RevokedSet' = RevokedSet \cup {i \in JtiIds : i = j /\ refresh_tokens[i].exists}
                /\ ActiveSet' = ActiveSet \ {NewestSession(u)}
                /\ AsLoggedOutIn(refresh_tokens', sessions', j, u)
                /\ AsLoggedOut(j, u) => (RevokedSet' = RevokedSet /\ ActiveSet' = ActiveSet)
      ]_vars

\* The same logout, sent again with nothing in between, was answered 200.
C22_Witness ==
    /\ last.op = "logout"
    /\ last.status = 200
    /\ last.lateOut
    /\ AsLoggedOut(last.token.jti, last.email)
    /\ ActiveSet = {}
    /\ RevokedSet = {last.token.jti}

\* --------------------------------------------------------------------- C23
\* C23: with cache persistence required, a strict-mode logout goes past its
\* cache steps only with a client in hand and the token's key deleted;
\* otherwise it is answered 503; a logout that is not answered 200 commits
\* nothing.  A relaxed-mode logout is never answered 503: without a client,
\* or with a deletion that failed, it goes on, and its 200 commits the
\* revoke of the record, the deactivation of the newest session and the
\* audit event.
C23_LogoutBranching ==
    [][LET pr  == procs[1]
           pr1 == procs'[1]
       IN /\ (last'.op = "logout" /\ last'.status # 200) => Tables' = Tables
          /\ (last'.op = "logout" /\ last'.status = 200) =>
                /\ AsLoggedOutIn(refresh_tokens', sessions', last'.token.jti, last'.email)
                /\ AuditCount("user.logout")' = AuditCount("user.logout") + 1
          /\ (redis_required /\ ~dev_relaxed_mode) =>
                /\ (pr1.op = "logout" /\ pr1.pc = "o_select") => pr1.redis
                /\ (pr.op = "logout" /\ pr.pc = "o_select" /\ pr1.pc \notin {"o_select", "idle"}) =>
                       pr1.pc = "o_delete"
                /\ (pr.op = "logout" /\ pr.pc = "o_delete" /\ pr1 # pr) =>
                       IF pr1.pc = "o_session"
                       THEN cache' = delete_refresh_jti(cache, pr.token.jti)
                       ELSE /\ last'.status = 503
                            /\ cache' = cache
                /\ (pr1.op = "logout" /\ pr1.pc = "o_session") =>
                       pr.pc \in {"o_delete", "o_session"}
          /\ (redis_required /\ dev_relaxed_mode) =>
                /\ last'.op = "logout" => last'.status # 503
                /\ (pr.op = "logout" /\ pr.pc = "o_delete" /\ pr1 # pr) =>
                       pr1.pc = "o_session"
      ]_vars

\* Relaxed mode, cache persistence required: a logout whose deletion of the
\* key failed, or that had no client, was answered 200 with the record
\* revoked.
C23_Witness ==
    /\ redis_required
    /\ dev_relaxed_mode
    /\ last.op = "logout"
    /\ last.status = 200
    /\ last.token.jti \in JtiIds
    /\ KeyIn(cache, last.token.jti) # None
    /\ RecordOf(last.token.jti).revoked_at = now
    /\ ActiveSet = {}

NoLiveSubject(t) ==
    /\ t.kind = "refresh"
    /\ t.sub \in Emails
    /\ ~users[t.sub].exists \/ ~users[t.sub].is_active

\* C25 as claimed: a refresh for a missing or inactive user fails with 401
\* in every mode and under every store failure.
C25_Always401 ==
    (last.op = "refresh" /\ NoLiveSubject(last.token)) => last.status = 401

\* C25, amended: a refresh for a missing or inactive user never issues a
\* token, neither a pair nor a fallback access token, and changes no record
\* and no cache key, in every mode and under every store failure, even when
\* the token's record is valid.  It is answered 401, with the detail of a
\* revoked token when the token is not expired, unless a store fails before
\* the user is known: then 503 from the route's get_redis in strict mode, or
\* 500 from the lookup of the user.
C25_NoTokenForDeadSubject ==
    [][(last'.op = "refresh" /\ NoLiveSubject(last'.token)) =>
           /\ last'.body = "none"
           /\ last'.out = NoToken
           /\ clientAccess' = clientAccess
           /\ Tables' = Tables
           /\ cache' = cache
           /\ last'.at = "start"
           /\ \/ /\ last'.status = 401
                 /\ last'.detail = IF decode_token(last'.token)
                                   THEN "Refresh token invalid or revoked"
                                   ELSE "Invalid token"
              \/ /\ faulty
                 /\ last'.status = 503
                 /\ last'.detail = "Redis unavailable"
                 /\ ~dev_relaxed_mode
              \/ /\ faulty
                 /\ last'.status = 500
      ]_vars

\* A refresh with an unrevoked, unexpired record of a disabled user was
\* answered 401 with the detail of a revoked token.
C25_Witness ==
    /\ last.op = "refresh"
    /\ last.token.kind = "refresh"
    /\ users[last.token.sub].exists
    /\ ~users[last.token.sub].is_active
    /\ Acceptable(RecordOf(last.token.jti), last.token)
    /\ last.status = 401
    /\ last.detail = "Refresh token invalid or revoked"

\* --------------------------------------------------------------------- C27
\* The details of the two limiters in front of AuthService.register.
RegisterLimited(r) ==
    r.detail \in {"Too many registrations",
                  "Too many registration attempts for this email"}

\* C27: at most one user per email, under every sequence and interleaving of
\* registrations.  A register answered while a user of its email is committed
\* is refused (400, unless a limiter answered 429 or a store that did not
\* answer 503 before it), and its step changes no record, no cache key and
\* hands out no token; a register is answered 200 only by the step that
\* commits the first user of the email, with the default role.
C27_OneUserPerEmail ==
    [][LET r == last' IN
       /\ (r.op = "register" /\ users[r.email].exists) =>
             /\ r.status \in {400, 429, 503}
             /\ r.body = "none"
             /\ Tables' = Tables
             /\ cache' = cache
             /\ clientAccess' = clientAccess
             /\ (~faulty /\ ~RegisterLimited(r)) => r.status = 400
       /\ (r.op = "register" /\ r.status = 200) =>
             /\ ~users[r.email].exists
             /\ users'[r.email] = [exists |-> TRUE, is_active |-> TRUE, roles |-> {"user"}]
       /\ \A e \in Emails : users[e].exists => users'[e].exists
      ]_vars

\* Two registrations of one email ran together: the second waited for the
\* first to commit and was refused by the unique index.
C27_Witness ==
    /\ last.op = "register"
    /\ last.status = 400
    /\ last.at = "g_flush"
    /\ last.detail = "Invalid registration request"
    /\ users[last.email].exists
    /\ Cardinality({j \in JtiIds : refresh_tokens[j].exists}) = 1

\* --------------------------------------------------------------------- C28
\* A value is missing when it is None or empty.
Missing(v) == v \in {NoStr, ""}

NewValue(previous, new) == ~Missing(previous) /\ ~Missing(new) /\ previous # new

\* The verdict the claim asks for.
Verdict(previous_ip, previous_ua, new_ip, new_ua) ==
    IF NewValue(previous_ip, new_ip) /\ NewValue(previous_ua, new_ua) THEN "high"
    ELSE IF NewValue(previous_ip, new_ip) \/ NewValue(previous_ua, new_ua) THEN "medium"
    ELSE "low"

\* C28: the verdict is low when neither the address nor the agent differs
\* from the previous one, a missing previous or new value counting as no
\* difference, medium when exactly one differs and high when both do: for
\* every combination of values of suspicious_login_check, and for every
\* issuance, whose previous values are the ones committed on the user before
\* it and whose new values are committed on the user with its 200.  (The
\* function does not read the state: its combinations are gone through in
\* the states before the first issuance.)
C28_AnomalyVerdict ==
    /\ issuing.n = 0 =>
          \A pi \in IPs \cup {NoStr}, ni \in IPs \cup {NoStr},
             pu \in UAs \cup {NoStr}, nu \in UAs \cup {NoStr} :
               suspicious_login_check(pi, pu, ni, nu) = Verdict(pi, pu, ni, nu)
    /\ issuing.pc = "commit" =>
          /\ issuing.prev_ip = profile.last_login_ip
          /\ issuing.prev_ua = profile.last_login_ua
          /\ issuing.severity = Verdict(issuing.prev_ip, issuing.prev_ua,
                                        issuing.ip, issuing.ua)
    /\ areply.status = 200 =>
          /\ areply.severity = Verdict(areply.prev_ip, areply.prev_ua,
                                       areply.ip, areply.ua)
          /\ profile.last_login_ip = areply.ip
          /\ profile.last_login_ua = areply.ua

\* A login from a new address with a new agent was answered with the verdict
\* high, after one whose address was empty had been answered low.
C28_Witness ==
    /\ areply.status = 200
    /\ areply.severity = "high"
    /\ areply.prev_ip # areply.ip
    /\ areply.prev_ua # areply.ua
    /\ flagged["low"] = 2
    /\ flagged["medium"] = 0

\* --------------------------------------------------------------------- C29
\* C29: alert dispatch is fire-and-forget.  A step of an alert task, a
\* delivery that failed included, changes neither an answer nor the committed
\* user and audit rows nor the issuance in flight; the issuance that created
\* the task can always go on to its commit, whatever the task has done; it is
\* answered 503 only when a store failed, and its 200 commits its rows.
C29_FireAndForget ==
    /\ [](issuing.pc = "commit" => ENABLED issue_db_commit)
    /\ [][
          /\ (alerts' # alerts /\ Len(alerts') = Len(alerts)) =>
                 UNCHANGED << profile, flagged, issuing, areply >>
          /\ (areply' # areply /\ areply'.status = 503) => faulty
          /\ (areply' # areply /\ areply'.status = 200) =>
                 /\ profile'.last_login_ip = areply'.ip
                 /\ flagged' = [flagged EXCEPT ![areply'.severity] = @ + 1]
                 /\ (areply'.task # 0) => (areply'.task \in DOMAIN alerts)
       ]_vars

\* An issuance was answered 200 while its alert task was still running, and
\* the delivery then failed on both channels.
C29_Witness ==
    /\ areply.status = 200
    /\ areply.task # 0
    /\ ~areply.settled
    /\ alerts[areply.task].state = "done"
    /\ alerts[areply.task].slack = "failed"
    /\ alerts[areply.task].email = "failed"

\* --------------------------------------------------------------------- C26
\* The register answered 200 just before is followed at once by /me with the
\* access token of its pair.
MeAfterRegister ==
    /\ last.op = "register"
    /\ last.status = 200
    /\ last'.op = "me"
    /\ last'.token = NewAccess(last.email)

\* C26 as claimed: /me returns the email as it was submitted to register.
C26_MeReturnsSubmitted ==
    [][(MeAfterRegister /\ last'.status = 200) => last'.email = last.submitted]_vars

\* C26, amended: register followed at once by /me with the returned access
\* token is answered 200 with the user (500 if the database does not answer),
\* and the email of that user is the submitted email in lower case: the same
\* email when it was submitted in lower case.
C26_MeReturnsLowered ==
    [][MeAfterRegister =>
           /\ last'.status \in (IF faulty THEN {200, 500} ELSE {200})
           /\ last'.status = 200 =>
                  /\ last'.body = "user"
                  /\ last'.email = lower(last.submitted)
                  /\ (last.submitted = lower(last.submitted)) =>
                         (last'.email = last.submitted)
      ]_vars

\* A register of "Alice" was answered 200, and /me with its access token is
\* answered 200 with "alice".
C26_Witness ==
    /\ last.op = "register"
    /\ last.status = 200
    /\ last.submitted = "Alice"
    /\ NewAccess(last.email) \in clientAccess
    /\ ENABLED (/\ MeRequest(1)
                /\ last'.token = NewAccess(last.email)
                /\ last'.status = 200
                /\ last'.email = "alice")

\* --------------------------------------------------------------------- C30
RoleGated == {"list_users", "modify_roles", "update_user", "revoke_session"}

\* get_current_user accepts the bearer t: an unexpired access token of an
\* active user.
Authenticated(t) ==
    /\ t.kind = "access"
    /\ ~(t.exp < now)
    /\ t.sub \in Emails
    /\ users[t.sub].exists
    /\ users[t.sub].is_active

\* The membership the claim asks for.
Allowed(op, held) ==
    IF op = "list_users" THEN held \cap {"admin", "moderator"} # {}
    ELSE "admin" \in held

RoleRefusal(r) ==
    /\ r.status = 403
    /\ r.detail \in {"Insufficient role privileges", "Missing required roles: admin"}

\* C30: for an authenticated user, GET /users is granted iff the roles stored
\* for the user when the request is served contain admin or moderator, and
\* the role-changing, user-updating and session-revoking routes iff they
\* contain admin, whatever roles the access token carries; a request that is
\* not granted is refused with 403, and a request that is not answered 200
\* changes nothing.  (Granted: answered 200, or 404 for a target that does
\* not exist, or 500 when the database does not answer.)
C30_RoleBasedAccess ==
    [][LET r == last' IN
       r.op \in RoleGated =>
          /\ Authenticated(r.token) =>
                IF Allowed(r.op, users[r.token.sub].roles)
                THEN r.status \in (IF faulty THEN {200, 404, 500} ELSE {200, 404})
                ELSE RoleRefusal(r) \/ (faulty /\ r.status = 500)
          /\ ~Authenticated(r.token) =>
                r.status \in (IF faulty THEN {401, 403, 500} ELSE {401, 403})
          /\ (r.status # 200 \/ r.op = "list_users") => Tables' = Tables
          /\ cache' = cache
          /\ clientAccess' = clientAccess
      ]_vars

\* A user whose access token was issued before the role admin was granted
\* changed a membership with it.
C30_Witness ==
    /\ last.op = "modify_roles"
    /\ last.status = 200
    /\ "admin" \notin last.token.roles
    /\ AuditCount("user.role.update") = 2

\* --------------------------------------------------------------------- C40
\* C40: an alert reaches a sink only for an audit event that is committed: the
\* task of an issuance that was answered 503, its rows rolled back, has sent
\* nothing.
C40_AlertsOnlyForCommitted ==
    (areply.status = 503 /\ areply.task # 0) =>
        /\ alerts[areply.task].slack # "sent"
        /\ alerts[areply.task].email # "sent"

\* --------------------------------------------------------------------- C38
\* The count the script reaches before it decides: a full bucket for a key
\* that is not there, the stored count plus the refill, capped, otherwise.
Refilled(b, k, t) ==
    IF ~b.exists THEN RATE_LIMITS[k].capacity * LimUnit
    ELSE Min(RATE_LIMITS[k].capacity * LimUnit, b.tokens + Refill(k, t - b.timestamp))

\* The script ran for caller c on key k in this step.
Consumed(c, k) ==
    /\ callers[c].pc = k
    /\ callers'[c] # callers[c]
    /\ lhist'.keys[k] # lhist.keys[k]

\* C38: while the calls on a key have carried timestamps that do not decrease,
\* the stored count lies between 0 and the capacity; a call that is admitted
\* stores the refilled count less one token, a call that is refused stores the
\* refilled count as it is, and both store the call's timestamp.
C38_BucketWithinCapacity ==
    /\ [](\A k \in LimKeys :
             (bucket[k].exists /\ ~lhist.keys[k].skew) =>
                 /\ bucket[k].tokens >= 0
                 /\ bucket[k].tokens <= RATE_LIMITS[k].capacity * LimUnit)
    /\ [][
          \A k \in LimKeys, c \in Callers :
              Consumed(c, k) =>
                  LET refilled == Refilled(bucket[k], k, callers[c].now) IN
                  /\ bucket'[k].exists
                  /\ bucket'[k].timestamp = callers[c].now
                  /\ IF lhist'.keys[k].rejected = None
                     THEN /\ refilled >= LimUnit
                          /\ bucket'[k].tokens = refilled - LimUnit
                     ELSE /\ refilled < LimUnit
                          /\ bucket'[k].tokens = refilled
       ]_vars

\* A call was refused on a bucket that had refilled half a token since it was
\* emptied: the half token is stored, with no timestamp out of order.
C38_Witness ==
    /\ lhist.keys["ip"].rejected # None
    /\ ~lhist.keys["ip"].skew
    /\ bucket["ip"].tokens > 0
    /\ bucket["ip"].tokens < LimUnit
    /\ lhist.status = 429

\* --------------------------------------------------------------------- C36
Lifetime(claims) == claims.exp - claims.iat

\* C36: under every configured ACCESS_TOKEN_TTL_MIN, a fallback access-only
\* token lives strictly shorter than a normally issued access token.
C36_FallbackShorter ==
    (minted.normal # NoClaims /\ minted.fallback # NoClaims) =>
        Lifetime(minted.fallback) < Lifetime(minted.normal)

\* --------------------------------------------------------------------- C39
\* C39: with cache persistence required and no operation in flight, every
\* refresh id in the cache has a committed, non-revoked record in the table.
C39_CacheWithinTable ==
    (redis_required /\ \A p \in Procs : ~InFlight(p)) =>
        \A j \in JtiIds :
            cache[j] # None =>
                /\ refresh_tokens[j].exists
                /\ refresh_tokens[j].revoked_at = None

\* --------------------------------------------------------------------- C32
\* C32: with cache-backed validation required and relaxed mode, a refresh that
\* found the cache unreachable and rotated from the durable record alone
\* returns its pair with the fallback warning.
C32_UnreachableCacheFlagged ==
    [][
        \A p \in Procs :
            ( /\ redis_required /\ dev_relaxed_mode
              /\ procs[p].op = "refresh" /\ procs[p].pc = "i_commit"
              /\ ~procs[p].redis
              /\ procs'[p].pc = "idle"
              /\ last'.status = 200 /\ last'.body = "pair" )
            => last'.warning = FALLBACK_REFRESH_WARNING
    ]_vars

\* --------------------------------------------------------------------- C33
\* The worker p answers in this step.
Answers(p) == procs[p].pc # "idle" /\ procs'[p].pc = "idle"

\* The refresh of worker p is at its commit after delete_refresh_jti raised on
\* a client it held.
DeleteFailed(p) ==
    /\ procs[p].op = "refresh" /\ procs[p].pc = "i_commit"
    /\ procs[p].redis /\ procs[p].did_fallback

\* C33: in relaxed mode with cache persistence required, a failed deletion of
\* the old id does not end the refresh; the commit that follows returns 200
\* with the new pair and the fallback warning, the old record is committed as
\* revoked, and the new record passes the checks of a following refresh.
C33_DeleteFailureKeepsPair ==
    [][
        \A p \in Procs :
            (redis_required /\ dev_relaxed_mode) =>
                /\ (procs[p].pc = "r_delete" /\ procs'[p] # procs[p]) =>
                       /\ procs'[p].pc = "i_commit"
                       /\ procs'[p].new = procs[p].new
                       /\ procs'[p].tx = procs[p].tx
                       /\ procs'[p].did_fallback \/ cache'[procs[p].token.jti] = None
                /\ (DeleteFailed(p) /\ Answers(p)) =>
                       IF last'.status = 200
                       THEN /\ last'.body = "pair"
                            /\ last'.out = procs[p].new
                            /\ last'.warning = FALLBACK_REFRESH_WARNING
                            /\ refresh_tokens'[procs[p].token.jti].exists
                            /\ refresh_tokens'[procs[p].token.jti].revoked_at # None
                            /\ refresh_validate([procs[p] EXCEPT !.token = procs[p].new],
                                                refresh_tokens'[procs[p].new.jti])
                       ELSE /\ last'.at = "i_commit"
                            /\ refresh_tokens' = refresh_tokens
    ]_vars

\* A refresh whose cache lookup succeeded returned its pair with the warning:
\* the key of the old id is still cached, its record is revoked, and the new
\* record is valid.
C33_Witness ==
    /\ redis_required /\ dev_relaxed_mode
    /\ last.op = "refresh" /\ last.status = 200 /\ last.body = "pair"
    /\ last.warning = FALLBACK_REFRESH_WARNING
    /\ last.cache_hit
    /\ cache[last.token.jti] # None
    /\ refresh_tokens[last.token.jti].revoked_at # None
    /\ RecordValid(refresh_tokens[last.out.jti], last.email)

\* --------------------------------------------------------------------- C31
AuthOps == {"register", "login", "refresh", "logout"}

\* The audit table with one more row of the kind k.
OneMore(k) == [audit_events EXCEPT ![k] = @ + 1]

RecordsOf(e) == {j \in JtiIds : refresh_tokens[j].exists /\ refresh_tokens[j].user_id = e}
SessionsOf(e) == {j \in JtiIds : sessions[j].exists /\ sessions[j].user_id = e}

\* The step answers an issuance with a new pair.
PairIssued == last'.op \in {"register", "login", "refresh"}
              /\ last'.status = 200 /\ last'.body = "pair"

\* C34: a register, login or rotation answered with a pair commits exactly one
\* new RefreshRecord and one new active SessionRecord of the user in the same
\* step; every other step, the access-only answer and the failures included,
\* adds no row of either table; so each user always has as many SessionRecords
\* as RefreshRecords.
C34_OneSessionPerRecord ==
    /\ [](\A e \in Emails : Cardinality(SessionsOf(e)) = Cardinality(RecordsOf(e)))
    /\ [][
          IF PairIssued
          THEN LET j == last'.out.jti IN
               /\ ~refresh_tokens[j].exists /\ ~sessions[j].exists
               /\ refresh_tokens'[j].exists
               /\ refresh_tokens'[j].user_id = last'.email
               /\ refresh_tokens'[j].revoked_at = None
               /\ sessions'[j].exists /\ sessions'[j].active
               /\ sessions'[j].user_id = last'.email
               /\ \A i \in JtiIds \ {j} :
                      /\ refresh_tokens'[i].exists = refresh_tokens[i].exists
                      /\ sessions'[i] = sessions[i]
          ELSE \A i \in JtiIds :
                   /\ refresh_tokens'[i].exists = refresh_tokens[i].exists
                   /\ sessions'[i].exists = sessions[i].exists
       ]_vars

\* A register, a login and a rotation have each committed their two rows.
C34_Witness ==
    /\ Cardinality(RecordsOf("alice")) = 3
    /\ Cardinality(SessionsOf("alice")) = 3
    /\ AuditCount("user.login") = 1
    /\ audit_events[[event_type |-> "user.refresh", fallback |-> FALSE]] = 1

\* --------------------------------------------------------------------- C37
\* C37: a logout revokes no RefreshRecord of a user other than the
\* authenticated caller.
C37_LogoutRevokesOwnRecordsOnly ==
    [][
        (last'.op = "logout" /\ last'.status = 200) =>
            \A j \in JtiIds :
                refresh_tokens'[j] # refresh_tokens[j] =>
                    refresh_tokens[j].user_id = last'.email
    ]_vars

\* --------------------------------------------------------------------- C35
\* C35: a logout answered 200 sets active = false on exactly one
\* SessionRecord, the most recently created one of the authenticated user, and
\* leaves every other session, of that user and of the others, as it was.
C35_LogoutDeactivatesLatestOnly ==
    [][
        (last'.op = "logout" /\ last'.status = 200) =>
            LET s == LatestSession(last'.email) IN
            /\ s # 0
            /\ sessions'[s] = [sessions[s] EXCEPT !.active = FALSE]
            /\ \A j \in JtiIds \ {s} : sessions'[j] = sessions[j]
    ]_vars

\* alice, with two sessions, has logged out: her latest session is inactive,
\* her first one and bob's are still active.
C35_Witness ==
    /\ last.op = "logout" /\ last.status = 200 /\ last.email = "alice"
    /\ SessionsOf("alice") = {1, 3}
    /\ SessionsOf("bob") = {2}
    /\ ~sessions[3].active
    /\ sessions[1].active
    /\ sessions[2].active

====
